---------------------------- MODULE Spec2Model ----------------------------
(***************************************************************************)
(* A model of the job / event subsystem of legion:                         *)
(*   - EventBus (src/handlers/event_bus.py): register_handler,             *)
(*     trigger_event and _execute_handler, with the handler tasks          *)
(*     interleaving at their await points;                                 *)
(*   - ProxyMonitorJob (src/jobs/proxy_monitor.py), EmbedJob               *)
(*     (src/jobs/embed.py) and AutobotJob (src/jobs/autobot.py), with the  *)
(*     lifecycle of Job that they share.                                   *)
(* Exceptions are of class Exception: the except clauses of the code catch *)
(* nothing else.                                                           *)
(* Each subsystem has its own specification over the shared variables.     *)
(***************************************************************************)
EXTENDS Integers, Sequences, FiniteSets, TLC

(***************************************************************************)
(* Bounds of the model.                                                    *)
(***************************************************************************)
\* register_handler calls made over one behaviour
MaxRegs == 2

(***************************************************************************)
(* EventBus                                                                *)
(***************************************************************************)
VARIABLES
    handlers,       \* EventBus._handlers: trigger -> list of handler classes
    regCount,       \* number of register_handler calls made so far
    call,           \* the trigger_event call in flight (its position and locals)
    handler_tasks,  \* the tasks trigger_event created, with what each has done
    busLog          \* what the logger of the bus received during the call

busVars == <<handlers, regCount, call, handler_tasks, busLog>>

(***************************************************************************)
(* ProxyMonitorJob and the jobs' lifecycle                                 *)
(***************************************************************************)
VARIABLES
    db,             \* the committed rows of the assets table
    chain,          \* explorer side: contract URL -> its proxy-upgrade events
    height,         \* blocks mined so far (one per upgrade event)
    jobs,           \* the ProxyMonitorJob instances, one per run
    emitted,        \* the contexts passed to trigger_event(CONTRACT_UPGRADED, ...)
    implChanges,    \* per row: how often its committed implementation changed
    run,            \* the latest run: the rows at its start, what its collaborators did
    lastEventRun    \* how many runs had started when the last event was mined

proxyVars == <<db, chain, height, jobs, emitted, implChanges, run, lastEventRun>>

(***************************************************************************)
(* EmbedJob and AutobotJob                                                 *)
(***************************************************************************)
VARIABLES
    embed,          \* the EmbedJob instance: lifecycle, counters, transaction
    autobot         \* the AutobotJob instance

otherJobVars == <<embed, autobot>>

(***************************************************************************)
(* JobManager                                                              *)
(***************************************************************************)
VARIABLES
    stop_calls,     \* the stop_job calls made: how many, and what the last did
    registry,       \* JobManager: the jobs stored, each under its identifier
    objects,        \* the job objects the calls of execute have made
    executes        \* the calls of FileSearchAction.execute: position, result

managerVars == <<stop_calls, registry, objects, executes>>

(***************************************************************************)
(* WatcherManager                                                          *)
(***************************************************************************)
VARIABLES
    wm,             \* the WatcherManager: its config, table, server and position
    cfg,            \* the Config class: its instance, _config and the file it loads
    qb              \* one QueryBuilder: what it has accumulated, and its last call

serviceVars == <<wm, cfg, qb>>

vars == <<busVars, proxyVars, otherJobVars, managerVars, serviceVars>>

\* HandlerTrigger kinds; CONTRACT_UPGRADED is the one the proxy monitor emits.
Triggers == {"CONTRACT_UPGRADED", "GITHUB_PUSH", "ASSET_REVISED"}

\* The built-in handler classes.
HandlerClasses == {"GitHubEventHandler", "ProjectEventHandler", "AssetRevisionHandler"}

\* handler_class.get_triggers(): the triggers each class declares.
GetTriggers(h) ==
    CASE h = "GitHubEventHandler"   -> {"GITHUB_PUSH"}
      [] h = "ProjectEventHandler"  -> {"CONTRACT_UPGRADED", "GITHUB_PUSH"}
      [] h = "AssetRevisionHandler" -> {"CONTRACT_UPGRADED", "ASSET_REVISED"}

\* EventBus.initialize: no trigger has a list yet.
EmptyRegistry == [t \in {} |-> <<>>]

\* A registration that leaves out a class the list already has.
RegisterOneOnce(reg, h, t) ==
    IF t \in DOMAIN reg /\ \E i \in 1 .. Len(reg[t]) : reg[t][i] = h
    THEN reg
    ELSE LET base == IF t \in DOMAIN reg THEN reg
                     ELSE [u \in DOMAIN reg \cup {t} |-> IF u = t THEN <<>> ELSE reg[u]]
         IN  [base EXCEPT ![t] = Append(@, h)]

\* The body of the loop of register_handler for one trigger.
RegisterOne(reg, h, t) ==
    LET base == IF t \in DOMAIN reg THEN reg
                ELSE [u \in DOMAIN reg \cup {t} |-> IF u = t THEN <<>> ELSE reg[u]]
    IN  [base EXCEPT ![t] = Append(@, h)]

\* register_handler(handler_class): RegisterOne for each declared trigger.
RECURSIVE RegisterAll(_, _, _)
RegisterAll(reg, h, ts) ==
    IF ts = {} THEN reg
    ELSE LET t == CHOOSE u \in ts : TRUE
         IN  RegisterAll(RegisterOne(reg, h, t), h, ts \ {t})

RegisterHandler(h) ==
    /\ regCount < MaxRegs
    /\ handlers' = RegisterAll(handlers, h, GetTriggers(h))
    /\ regCount' = regCount + 1
    /\ UNCHANGED <<call, handler_tasks, busLog>>
    /\ UNCHANGED <<proxyVars, otherJobVars, managerVars, serviceVars>>

\* A try block that creates the task whatever the constructor and
\* set_context did.
InstantiateAlways(h, fate) == [created |-> TRUE, raised |-> FALSE]

\* The try block of the loop of trigger_event for one handler class: the
\* instance is created and given its context, and a task is created for it,
\* unless the constructor or set_context raises.
Instantiate(h, fate) ==
    IF fate \in {"init_raises", "ctx_raises"}
    THEN [created |-> FALSE, raised |-> TRUE]
    ELSE [created |-> TRUE, raised |-> FALSE]

\* A loop without its except clause.
LoopCatchesNever(raised) == FALSE

\* The except clause of the loop: TRUE when the exception is caught there
\* (and logged), FALSE when it leaves trigger_event.
LoopCatches(raised) == raised

\* The loop of trigger_event over self._handlers[trigger], from entry i on.
\* Returns the tasks created, the log lines written and whether an exception
\* left the loop.
RECURSIVE CreateTasks(_, _, _, _)
CreateTasks(classes, plan, i, acc) ==
    IF i > Len(classes) THEN acc
    ELSE LET r == Instantiate(classes[i], plan[i])
         IN  IF r.created
             THEN CreateTasks(classes, plan, i + 1,
                     [acc EXCEPT !.tasks = Append(@,
                         [entry |-> i, cls |-> classes[i], fate |-> plan[i],
                          st |-> "pending", result |-> "none",
                          context_set |-> TRUE, handled |-> 0])])
             ELSE IF LoopCatches(r.raised)
             THEN CreateTasks(classes, plan, i + 1,
                     [acc EXCEPT !.log = Append(@, <<"error", "handler_failed", i>>)])
             ELSE [acc EXCEPT !.escaped = TRUE]

\* The lookup without its early return.
NoHandlersNever(reg, t) == FALSE

\* `if trigger not in self._handlers`
NoHandlers(reg, t) == t \notin DOMAIN reg

\* trigger_event(trigger, context) up to its first await: the lookup, the
\* early return, the loop that creates the tasks, and the return when no task
\* was created.
TriggerEvent(t) ==
    /\ call.pc \in {"idle", "returned"}
    /\ IF NoHandlers(handlers, t)
       THEN /\ call' = [pc |-> "returned", trigger |-> t, plan |-> <<>>,
                        raised |-> FALSE, registry_before |-> handlers]
            /\ handler_tasks' = <<>>
            /\ busLog' = <<<<"warning", "no_handlers", 0>>>>
       ELSE IF t \notin DOMAIN handlers
       THEN \* self._handlers[trigger] raises KeyError, which nothing catches
            /\ call' = [pc |-> "returned", trigger |-> t, plan |-> <<>>,
                        raised |-> TRUE, registry_before |-> handlers]
            /\ handler_tasks' = <<>>
            /\ busLog' = <<>>
       ELSE \E plan \in [1 .. Len(handlers[t]) -> {"ok", "init_raises", "ctx_raises", "handle_raises"}] :
               LET r == CreateTasks(handlers[t], plan, 1,
                           [tasks |-> <<>>, log |-> <<>>, escaped |-> FALSE])
               IN  /\ call' = [pc |-> IF r.escaped \/ r.tasks = <<>>
                                      THEN "returned" ELSE "gather",
                               trigger |-> t, plan |-> plan,
                               raised |-> r.escaped, registry_before |-> handlers]
                   /\ handler_tasks' = r.tasks
                   /\ busLog' = r.log
    /\ UNCHANGED <<handlers, regCount>>
    /\ UNCHANGED <<proxyVars, otherJobVars, managerVars, serviceVars>>

\* A task starts _execute_handler and runs into handle() up to its first
\* suspension.
HandlerStart(k) ==
    /\ k \in 1 .. Len(handler_tasks)
    /\ handler_tasks[k].st = "pending"
    /\ handler_tasks' = [handler_tasks EXCEPT ![k].st = "running",
                                              ![k].handled = @ + 1]
    /\ UNCHANGED <<handlers, regCount, call, busLog>>
    /\ UNCHANGED <<proxyVars, otherJobVars, managerVars, serviceVars>>

\* _execute_handler without its except clause.
ExecuteHandlerNoCatch(fate) ==
    IF fate = "handle_raises" THEN "raised" ELSE "returned"

\* _execute_handler around handle(): what the task ends with, given how
\* handle() ended.  "returned" and "caught" end the task normally; "raised"
\* ends it with the exception.
ExecuteHandler(fate) ==
    IF fate = "handle_raises" THEN "caught" ELSE "returned"

\* handle() of a running task ends, and with it the task.
HandlerFinish(k) ==
    /\ k \in 1 .. Len(handler_tasks)
    /\ handler_tasks[k].st = "running"
    /\ LET res == ExecuteHandler(handler_tasks[k].fate)
       IN  /\ handler_tasks' = [handler_tasks EXCEPT ![k].st = "done",
                                                     ![k].result = res]
           /\ busLog' = IF res = "caught"
                        THEN Append(busLog, <<"error", "execution_failed",
                                              handler_tasks[k].entry>>)
                        ELSE busLog
    /\ UNCHANGED <<handlers, regCount, call>>
    /\ UNCHANGED <<proxyVars, otherJobVars, managerVars, serviceVars>>

\* A wait that ends with the first task done.
GatherDoneFirst(tasks) ==
    \E k \in 1 .. Len(tasks) : tasks[k].st = "done"

\* await asyncio.gather(*handler_tasks) is over: every task is done, or one
\* of them ended with an exception, which gather raises at once.
GatherDone(tasks) ==
    \/ \A k \in 1 .. Len(tasks) : tasks[k].st = "done"
    \/ \E k \in 1 .. Len(tasks) : tasks[k].st = "done" /\ tasks[k].result = "raised"

\* The end of trigger_event: gather is over; an exception it raised is
\* caught and logged.
GatherReturn ==
    /\ call.pc = "gather"
    /\ GatherDone(handler_tasks)
    /\ call' = [call EXCEPT !.pc = "returned"]
    /\ busLog' = IF \E k \in 1 .. Len(handler_tasks) : handler_tasks[k].result = "raised"
                 THEN Append(busLog, <<"error", "gather_failed", 0>>)
                 ELSE busLog
    /\ UNCHANGED <<handlers, regCount, handler_tasks>>
    /\ UNCHANGED <<proxyVars, otherJobVars, managerVars, serviceVars>>

(***************************************************************************)
(* Explorer and assets                                                     *)
(***************************************************************************)
\* Bounds: upgrade events mined, and ProxyMonitorJob runs, in one behaviour.
MaxEvents == 2
MaxRuns == 2

\* An explorer URL, https://<domain>/address/<addr>.
Url(domain, addr) == <<domain, addr>>

\* EVMExplorer.EXPLORERS: explorer type -> its configuration.
EXPLORERS ==
    [etherscan |-> [domain |-> "etherscan.io"],
     arbiscan  |-> [domain |-> "arbiscan.io"]]

\* EVMExplorer.is_supported_explorer(identifier) -> (is_supported, explorer_type)
IsSupportedExplorer(identifier) ==
    IF \E ty \in DOMAIN EXPLORERS : EXPLORERS[ty].domain = identifier[1]
    THEN <<TRUE, CHOOSE ty \in DOMAIN EXPLORERS : EXPLORERS[ty].domain = identifier[1]>>
    ELSE <<FALSE, "none">>

\* impl_url = f"https://{explorer_domain}/address/{impl_address}"
ImplUrl(explorer_type, impl_address) ==
    Url(EXPLORERS[explorer_type]["domain"], impl_address)

\* The addresses upgrade events name as implementation.
ImplAddrs == {"a", "b"}

NoUrl == Url("none", "none")
NoEvent == [implementation |-> "none", blockNumber |-> 0, timestamp |-> 0]

\* Asset.extra_data: none is Python's None; a missing is_not_proxy key reads
\* FALSE and a missing implementation_history key reads as the empty list.
NoneExtra == [none |-> TRUE, is_not_proxy |-> FALSE, implementation_history |-> <<>>,
              is_implementation |-> FALSE]
EmptyExtra == [NoneExtra EXCEPT !.none = FALSE]

\* The assets the indexer stored before any run: a deployed contract on a
\* supported explorer, one on a domain that is no supported explorer, and a
\* repository.  implementation is a row number, 0 for no implementation.
InitialAssets ==
    << [identifier |-> Url("etherscan.io", "p1"), asset_type |-> "DEPLOYED_CONTRACT",
        project_id |-> 1, implementation |-> 0, extra_data |-> NoneExtra],
       [identifier |-> Url("example.org", "p2"), asset_type |-> "DEPLOYED_CONTRACT",
        project_id |-> 1, implementation |-> 0, extra_data |-> EmptyExtra],
       [identifier |-> Url("github.com", "repo"), asset_type |-> "GITHUB_REPO",
        project_id |-> 1, implementation |-> 0, extra_data |-> EmptyExtra] >>

\* The contracts that may emit upgrade events on chain: the two tracked
\* ones, and the implementation "a", which may itself be a proxy.
ChainContracts(rows) ==
    {rows[1].identifier, rows[2].identifier, Url("etherscan.io", "a")}

\* The assets where the indexer has stored the contract at "a" too, and an
\* earlier run has found no upgrade event for it.
IndexedAssets ==
    Append(InitialAssets,
           [identifier |-> Url("etherscan.io", "a"), asset_type |-> "DEPLOYED_CONTRACT",
            project_id |-> 1, implementation |-> 0,
            extra_data |-> [EmptyExtra EXCEPT !.is_not_proxy = TRUE]])

\* explorer.get_proxy_upgrade_events(identifier), when it does not raise.
EventsAt(ch, identifier) ==
    IF identifier \in DOMAIN ch THEN ch[identifier] ELSE <<>>

\* A contract emits an upgrade event naming a new implementation.
NewEvent(u, impl) ==
    /\ height < MaxEvents
    /\ u \in DOMAIN chain
    /\ impl # u[2]
    /\ chain' = [chain EXCEPT ![u] = Append(@,
                    [implementation |-> impl, blockNumber |-> height + 1,
                     timestamp |-> height + 1 + MaxEvents])]
    /\ height' = height + 1
    /\ lastEventRun' = Len(SelectSeq(jobs, LAMBDA jr : jr.pc # "init"))
    /\ UNCHANGED <<db, jobs, emitted, implChanges, run>>
    /\ UNCHANGED <<busVars, otherJobVars, managerVars, serviceVars>>

(***************************************************************************)
(* The session of a job: the writes it has made and not yet committed.     *)
(***************************************************************************)
CleanSession == <<>>

\* The rows with a list of writes applied; row 0 stands for session.add of a
\* new asset.
RECURSIVE Apply(_, _)
Apply(rows, writes) ==
    IF writes = <<>> THEN rows
    ELSE LET w == Head(writes)
         IN  Apply(IF w.row = 0 THEN Append(rows, w.val)
                   ELSE [rows EXCEPT ![w.row] = w.val],
                   Tail(writes))

\* session.commit(), when it does not raise: the writes become the rows,
\* those to extra_data included.
Commit(rows, session) == Apply(rows, session)

\* session.rollback(): the writes are dropped.
Rollback(session) == CleanSession

\* The session keeps the objects its queries have loaded (`loaded`, by row)
\* and reads their attributes from there; a commit or a rollback expires
\* them all, and an expired object is read again from the database when
\* one of its attributes is next used.  `fresh` names the rows whose object
\* is not expired.
Expire(jr) == [jr EXCEPT !.fresh = {}]

\* The objects of a query, as loaded.
Loaded(jr, rows) == [jr EXCEPT !.loaded = rows, !.fresh = 1 .. Len(rows)]

\* The head of the loop body uses contract.identifier: the contract is read
\* again there if it is expired.
LoadAtHead(jr, rows) ==
    IF jr.pc = "explorer" /\ jr.contracts[jr.idx] \notin jr.fresh
    THEN LET c == jr.contracts[jr.idx]
         IN  [jr EXCEPT !.loaded[c] = rows[c], !.fresh = @ \cup {c}]
    ELSE jr

\* The query without its is_not_proxy filter.
RECURSIVE QueryContractsAll(_, _)
QueryContractsAll(rows, i) ==
    IF i > Len(rows) THEN <<>>
    ELSE IF rows[i].asset_type = "DEPLOYED_CONTRACT"
         THEN <<i>> \o QueryContractsAll(rows, i + 1)
         ELSE QueryContractsAll(rows, i + 1)

\* The query of start(): the deployed contracts not flagged is_not_proxy.
\* An extra_data of None is stored as JSON null, which contains no flag.
RECURSIVE QueryContracts(_, _)
QueryContracts(rows, i) ==
    IF i > Len(rows) THEN <<>>
    ELSE IF /\ rows[i].asset_type = "DEPLOYED_CONTRACT"
            /\ ~ rows[i].extra_data.is_not_proxy
         THEN <<i>> \o QueryContracts(rows, i + 1)
         ELSE QueryContracts(rows, i + 1)

\* A query that finds no asset.
FindAssetNever(rows, impl_url) == 0

\* session.query(Asset).filter(Asset.identifier == impl_url).first()
FindAsset(rows, impl_url) ==
    IF \E i \in 1 .. Len(rows) : rows[i].identifier = impl_url
    THEN CHOOSE i \in 1 .. Len(rows) :
            /\ rows[i].identifier = impl_url
            /\ \A k \in 1 .. i - 1 : rows[k].identifier # impl_url
    ELSE 0

\* How often each row's committed implementation has changed, after a commit
\* that turns the rows `old` into `new`.
CountChanges(counts, old, new) ==
    [i \in 1 .. Len(new) |->
        IF i <= Len(old)
        THEN counts[i] + (IF new[i].implementation # old[i].implementation THEN 1 ELSE 0)
        ELSE 0]

(***************************************************************************)
(* Job: the lifecycle every job shares                                     *)
(***************************************************************************)
NoResult == [success |-> FALSE, message |-> ""]

\* JobResult(success=..., message=...)
JobResult(success, message) == [success |-> success, message |-> message]

\* A job as constructed.
NewJob(id, job_type) ==
    [id |-> id, job_type |-> job_type, status |-> "PENDING", pc |-> "init",
     result |-> NoResult, error |-> "", results_set |-> 0,
     contracts |-> <<>>, idx |-> 0, latest_event |-> NoEvent, impl_url |-> NoUrl,
     session |-> CleanSession, loaded |-> <<>>, fresh |-> {},
     stops |-> 0, at |-> "none", escaped |-> "none", moves |-> {}]

\* The changes of status the job has made so far, with the one to `status`.
Moved(jr, status) ==
    IF jr.status = status THEN jr.moves ELSE jr.moves \cup {<<jr.status, status>>}

\* The harness starts the job's start() coroutine.
MarkRunning(jr) == [jr EXCEPT !.status = "RUNNING", !.moves = Moved(jr, "RUNNING")]

\* Job.complete(result)
Complete(jr, result) ==
    [jr EXCEPT !.status = "COMPLETED", !.result = result, !.results_set = @ + 1,
               !.moves = Moved(jr, "COMPLETED")]

\* Job.fail(error)
Fail(jr, error) ==
    [jr EXCEPT !.status = "FAILED", !.error = error, !.results_set = @ + 1,
               !.moves = Moved(jr, "FAILED")]

TerminalStatuses == {"COMPLETED", "FAILED", "STOPPED"}

\* What `await self.complete(result)` does: it returns with the job
\* completed, or raises with the job as it was.
CompleteOutcomes == {"ok", "raises"}

\* The classes of exception a coroutine may meet: the subclasses of
\* Exception, and asyncio's CancelledError, which is none of them.
ExceptionClasses == {"Exception", "CancelledError"}

\* The harness around start(): an exception of class Exception that leaves
\* start() makes the job FAILED with the exception's message; the coroutine
\* is over.
HarnessCatch(jr, message) ==
    [Fail(jr, message) EXCEPT !.pc = "returned", !.escaped = message]

\* stop_handler() of the job's class: EmbedJob writes a line to its log,
\* ProxyMonitorJob and AutobotJob do nothing; the call is counted.
StopHandler(jr) == [jr EXCEPT !.stops = @ + 1]

\* A stop_job that also stops a job already terminal.
StopAlways(jr) ==
    [StopHandler(jr) EXCEPT !.status = "STOPPED", !.moves = Moved(jr, "STOPPED")]

\* JobManager.stop_job on a job: a terminal job is left alone; any other has
\* its stop_handler() called, becomes STOPPED, and has the cancellation of
\* its task requested: a job that has not started never starts, a job
\* suspended at an await meets CancelledError there when it is resumed.
Stop(jr) ==
    IF jr.status \in TerminalStatuses THEN jr
    ELSE [StopHandler(jr) EXCEPT
                    !.status = "STOPPED",
                    !.moves = Moved(jr, "STOPPED"),
                    !.at = jr.pc,
                    !.pc = IF jr.pc = "init" THEN "cancelled" ELSE "cancelling"]

(***************************************************************************)
(* ProxyMonitorJob.start                                                   *)
(***************************************************************************)
\* contract.extra_data["is_not_proxy"] = True, after `extra_data = {}` for None
MarkNotProxy(contract) ==
    [contract EXCEPT !.extra_data.none = FALSE, !.extra_data.is_not_proxy = TRUE]

\* Asset(identifier=impl_url, ...) for a new implementation
ImplAsset(impl_url, project_id) ==
    [identifier |-> impl_url, asset_type |-> "DEPLOYED_CONTRACT",
     project_id |-> project_id, implementation |-> 0,
     extra_data |-> [EmptyExtra EXCEPT !.is_implementation = TRUE]]

\* The record with its two numbers exchanged.
HistoryEntrySwapped(impl_address, impl_url, latest_event) ==
    [address |-> impl_address, url |-> impl_url,
     block_number |-> latest_event.timestamp,
     timestamp |-> latest_event.blockNumber]

\* The record appended to implementation_history
HistoryEntry(impl_address, impl_url, latest_event) ==
    [address |-> impl_address, url |-> impl_url,
     block_number |-> latest_event.blockNumber,
     timestamp |-> latest_event.timestamp]

\* The relink without the history append.
RelinkNoHistory(contract, impl_asset, entry) ==
    [contract EXCEPT !.implementation = impl_asset, !.extra_data.none = FALSE]

\* contract.implementation = impl_asset, and the history append
Relink(contract, impl_asset, entry) ==
    [contract EXCEPT !.implementation = impl_asset,
                     !.extra_data.none = FALSE,
                     !.extra_data.implementation_history = Append(@, entry)]

\* A context whose old_impl is read after the relink.
UpgradeContextReadLate(jr, c, old_impl, impl_asset, latest_event) ==
    [proxy |-> c, old_implementation |-> impl_asset, new_implementation |-> impl_asset,
     event |-> latest_event, run |-> jr.id]

\* The context of the CONTRACT_UPGRADED event
UpgradeContext(jr, c, old_impl, impl_asset, latest_event) ==
    [proxy |-> c, old_implementation |-> old_impl, new_implementation |-> impl_asset,
     event |-> latest_event, run |-> jr.id]

\* The end of the loop: the session is released and start() awaits
\* self.complete(...).
FinishRun(jr) ==
    [jr EXCEPT !.pc = "complete", !.contracts = <<>>, !.idx = 0,
               !.loaded = <<>>, !.fresh = {}]

\* The outer except clause of start().
FailRun(jr, error) == [Fail(jr, error) EXCEPT !.pc = "returned"]

\* An except clause that catches whatever is raised.
ProxyExceptAll(exc) == TRUE

\* `except Exception` of start(), the loop's and the outer one: the classes
\* it catches.
ProxyExcept(exc) == exc = "Exception"

\* The head of the for loop: the next contract, or the end of the loop.
NextContract(jr) ==
    IF jr.idx < Len(jr.contracts)
    THEN [jr EXCEPT !.idx = @ + 1, !.pc = "explorer",
                    !.latest_event = NoEvent, !.impl_url = NoUrl]
    ELSE FinishRun(jr)

\* The except clause without its rollback.
OnExceptionNoRollback(jr) == NextContract(jr)

\* An except clause that ends the run.
OnExceptionAbortsRun(jr) ==
    FailRun(Expire([jr EXCEPT !.session = Rollback(@)]), "contract failed")

\* The except clause of the loop body: log, roll back, continue.
OnException(jr) == NextContract(Expire([jr EXCEPT !.session = Rollback(@)]))

\* The loop body without its check for an unchanged implementation.
ImplementationUnchangedNever(rows, contract, impl_url) == FALSE

\* `if current_impl and current_impl.identifier == impl_url`
ImplementationUnchanged(rows, contract, impl_url) ==
    LET current_impl == contract.implementation
    IN  current_impl # 0 /\ rows[current_impl].identifier = impl_url

\* The relink of contract c (row number) to impl_asset, 0 for an asset to be
\* created, up to the call of trigger_event.  The result names the job, the
\* rows and the context emitted, and what the commit did.
UpdateProxy(jr, rows_db, c, latest_event, impl_url, impl_asset, commit_ok) ==
    LET rows     == Apply(rows_db, jr.session)
        contract == jr.loaded[c]
        w1       == IF impl_asset = 0
                    THEN Append(jr.session,
                                [row |-> 0, val |-> ImplAsset(impl_url, contract.project_id)])
                    ELSE jr.session
        target   == IF impl_asset = 0 THEN Len(rows) + 1 ELSE impl_asset
        old_impl == contract.implementation
        w2       == Append(w1,
                       [row |-> c,
                        val |-> Relink(contract, target,
                                   HistoryEntry(latest_event.implementation, impl_url,
                                                latest_event))])
    IN  IF commit_ok
        THEN [job |-> Expire([jr EXCEPT !.session = CleanSession, !.pc = "emit"]),
              db |-> Commit(rows_db, w2),
              emit |-> <<UpgradeContext(jr, c, old_impl, target, latest_event)>>,
              commit |-> "ok"]
        ELSE [job |-> OnException([jr EXCEPT !.session = w2]),
              db |-> rows_db, emit |-> <<>>, commit |-> "raised"]

\* The loop body for contract c once the explorer has answered with events,
\* up to the next await.
CheckContract(jr, rows_db, c, events, commit_ok) ==
    LET rows     == Apply(rows_db, jr.session)
        contract == jr.loaded[c]
    IN  IF events = <<>>
        THEN LET w == Append(jr.session, [row |-> c, val |-> MarkNotProxy(contract)])
             IN  IF commit_ok
                 THEN [job |-> NextContract(Expire([jr EXCEPT !.session = CleanSession])),
                       db |-> Commit(rows_db, w), emit |-> <<>>, commit |-> "ok"]
                 ELSE [job |-> OnException([jr EXCEPT !.session = w]),
                       db |-> rows_db, emit |-> <<>>, commit |-> "raised"]
        ELSE
        LET latest_event == events[Len(events)]
            impl_address == latest_event.implementation
            sup          == IsSupportedExplorer(contract.identifier)
        IN  IF ~ sup[1]
            THEN [job |-> NextContract(jr), db |-> rows_db, emit |-> <<>>,
                  commit |-> "none"]
            ELSE
            LET impl_url == ImplUrl(sup[2], impl_address)
            IN  IF ImplementationUnchanged(rows, contract, impl_url)
                THEN [job |-> NextContract(jr), db |-> rows_db, emit |-> <<>>,
                      commit |-> "none"]
                ELSE
                LET impl_asset == FindAsset(rows, impl_url)
                IN  IF impl_asset = 0
                    THEN [job |-> [jr EXCEPT !.pc = "fetch",
                                             !.latest_event = latest_event,
                                             !.impl_url = impl_url],
                          db |-> rows_db, emit |-> <<>>, commit |-> "none"]
                    ELSE UpdateProxy(jr, rows_db, c, latest_event, impl_url,
                                     impl_asset, commit_ok)

\* What the collaborators did for one contract in one run.
NoInputs == [reply |-> "none", latest |-> NoEvent, fetch |-> "none", commit |-> "none"]

\* The contracts whose iteration ended without an exception.
CleanRows(inputs) ==
    {c \in 1 .. Len(inputs) :
        /\ inputs[c].reply = "events"
        /\ inputs[c].fetch # "raised"
        /\ inputs[c].commit # "raised"}

\* start() up to its first await: the session is opened and the contracts
\* are queried; a failure here is the job's failure.
BeginRun(j) ==
    /\ jobs[j].pc = "init"
    /\ \E query_ok \in BOOLEAN :
        LET jr == MarkRunning(jobs[j])
        IN  /\ jobs' = [jobs EXCEPT ![j] =
                  IF query_ok
                  THEN NextContract([Loaded(jr, Apply(db, jr.session)) EXCEPT
                          !.contracts = QueryContracts(Apply(db, jr.session), 1),
                          !.idx = 0])
                  ELSE FailRun(jr, "query failed")]
            /\ run' = [id |-> j, queried |-> query_ok, db0 |-> db,
                       inputs |-> [i \in 1 .. Len(db) |-> NoInputs],
                       prevClean |-> CleanRows(run.inputs),
                       prevFaultFree |-> \A c \in 1 .. Len(run.inputs) :
                                            /\ run.inputs[c].reply # "raised"
                                            /\ run.inputs[c].fetch # "raised"
                                            /\ run.inputs[c].commit # "raised"]
    /\ UNCHANGED <<db, chain, height, emitted, implChanges, lastEventRun>>
    /\ UNCHANGED <<busVars, otherJobVars, managerVars, serviceVars>>

\* A run that starts when the runs before it have ended.
StartRun(j) ==
    /\ \A k \in 1 .. j - 1 : jobs[k].pc = "returned"
    /\ BeginRun(j)

\* get_proxy_upgrade_events returns or raises, and the loop body runs to its
\* next await.
ExplorerReply(j) ==
    /\ jobs[j].pc = "explorer"
    /\ \E raised \in BOOLEAN, commit_ok \in BOOLEAN :
        LET jr     == jobs[j]
            c      == jr.contracts[jr.idx]
            events == EventsAt(chain, Apply(db, jr.session)[c].identifier)
            r      == IF raised
                      THEN [job |-> OnException(jr), db |-> db, emit |-> <<>>,
                            commit |-> "none"]
                      ELSE CheckContract(jr, db, c, events, commit_ok)
        IN  /\ jobs' = [jobs EXCEPT ![j] = LoadAtHead(r.job, r.db)]
            /\ db' = r.db
            /\ emitted' = emitted \o r.emit
            /\ implChanges' = CountChanges(implChanges, db, r.db)
            /\ run' = [run EXCEPT !.inputs[c] =
                  [reply |-> IF raised THEN "raised" ELSE "events",
                   latest |-> IF raised \/ events = <<>> THEN NoEvent
                              ELSE events[Len(events)],
                   fetch |-> "none", commit |-> r.commit]]
    /\ UNCHANGED <<chain, height, lastEventRun>>
    /\ UNCHANGED <<busVars, otherJobVars, managerVars, serviceVars>>

\* fetch_verified_sources returns or raises, and the loop body runs on to
\* the call of trigger_event.
FetchReply(j) ==
    /\ jobs[j].pc = "fetch"
    /\ \E raised \in BOOLEAN, commit_ok \in BOOLEAN :
        LET jr == jobs[j]
            c  == jr.contracts[jr.idx]
            r  == IF raised
                  THEN [job |-> OnException(jr), db |-> db, emit |-> <<>>,
                        commit |-> "none"]
                  ELSE UpdateProxy(jr, db, c, jr.latest_event, jr.impl_url, 0, commit_ok)
        IN  /\ jobs' = [jobs EXCEPT ![j] = LoadAtHead(r.job, r.db)]
            /\ db' = r.db
            /\ emitted' = emitted \o r.emit
            /\ implChanges' = CountChanges(implChanges, db, r.db)
            /\ run' = [run EXCEPT !.inputs[c].fetch =
                                      IF raised THEN "raised" ELSE "ok",
                                   !.inputs[c].commit = r.commit]
    /\ UNCHANGED <<chain, height, lastEventRun>>
    /\ UNCHANGED <<busVars, otherJobVars, managerVars, serviceVars>>

\* trigger_event returns to the job, which goes on with the next contract.
TriggerReturn(j) ==
    /\ jobs[j].pc = "emit"
    /\ jobs' = [jobs EXCEPT ![j] = LoadAtHead(NextContract(@), db)]
    /\ UNCHANGED <<db, chain, height, emitted, implChanges, run, lastEventRun>>
    /\ UNCHANGED <<busVars, otherJobVars, managerVars, serviceVars>>

\* The loop body after `await self.handler_registry.trigger_event(...)`:
\* an exception the call raises is met by the loop's except clause; either
\* way the loop goes on.
AfterTrigger(jr, raised) ==
    IF raised THEN OnException(jr) ELSE NextContract(jr)

\* The job at the call of trigger_event enters EventBus.trigger_event for
\* CONTRACT_UPGRADED.
EmitTrigger(j) ==
    /\ jobs[j].pc = "emit"
    /\ call.pc = "idle"
    /\ TriggerEvent("CONTRACT_UPGRADED")

\* trigger_event has returned to the job, or raised into it.
TriggerEventReturns(j) ==
    /\ jobs[j].pc = "emit"
    /\ call.pc = "returned"
    /\ jobs' = [jobs EXCEPT ![j] = LoadAtHead(AfterTrigger(@, call.raised), db)]
    /\ call' = [call EXCEPT !.pc = "idle"]
    /\ UNCHANGED <<handlers, regCount, handler_tasks, busLog>>
    /\ UNCHANGED <<db, chain, height, emitted, implChanges, run, lastEventRun>>
    /\ UNCHANGED <<otherJobVars, managerVars, serviceVars>>

\* A last statement that runs on into the outer except clause.
ProxyCompletedThenFails(jr) ==
    FailRun(Complete(jr, JobResult(TRUE, "Proxy monitoring completed successfully")),
            "complete failed")

\* The last statement of the try block:
\* await self.complete(JobResult(success=True, message=...))
ProxyCompleted(jr) ==
    [Complete(jr, JobResult(TRUE, "Proxy monitoring completed successfully"))
        EXCEPT !.pc = "returned"]

\* self.complete(...) returns, and with it start().
CompleteReturns(j) ==
    /\ jobs[j].pc = "complete"
    /\ jobs' = [jobs EXCEPT ![j] = ProxyCompleted(@)]
    /\ UNCHANGED <<db, chain, height, emitted, implChanges, run, lastEventRun>>
    /\ UNCHANGED <<busVars, otherJobVars, managerVars, serviceVars>>

\* self.complete(...) raises, into the outer except clause.
CompleteRaises(j) ==
    /\ jobs[j].pc = "complete"
    /\ jobs' = [jobs EXCEPT ![j] = FailRun(@, "complete failed")]
    /\ UNCHANGED <<db, chain, height, emitted, implChanges, run, lastEventRun>>
    /\ UNCHANGED <<busVars, otherJobVars, managerVars, serviceVars>>

\* The CancelledError of a stop request reaches start() at the await where
\* it is suspended: inside the loop the loop's clause is the first to see
\* it, then the outer clause; uncaught, it ends the coroutine, and the
\* session is released on the way out.
ProxyCancelled(j) ==
    /\ jobs[j].pc = "cancelling"
    /\ jobs' = [jobs EXCEPT ![j] =
          IF jobs[j].at \in {"explorer", "fetch", "emit"} /\ ProxyExcept("CancelledError")
          THEN LoadAtHead(OnException(@), db)
          ELSE IF ProxyExcept("CancelledError")
          THEN FailRun(@, "")
          ELSE [@ EXCEPT !.pc = "cancelled", !.session = Rollback(@),
                         !.contracts = <<>>, !.idx = 0,
                         !.loaded = <<>>, !.fresh = {}]]
    /\ UNCHANGED <<db, chain, height, emitted, implChanges, run, lastEventRun>>
    /\ UNCHANGED <<busVars, otherJobVars, managerVars, serviceVars>>

(***************************************************************************)
(* EmbedJob.start                                                          *)
(***************************************************************************)
\* Bound: the assets the query of EmbedJob may return.
MaxAssets == 11

\* EmbedJob.BATCH_SIZE
BATCH_SIZE == 10

\* An EmbedJob as constructed.  pending counts the updates executed in the
\* open transaction, committed those a commit has made durable, skipped the
\* assets left out for an empty embedding.
NewEmbedJob ==
    [job_type |-> "embed", status |-> "PENDING", pc |-> "init",
     result |-> NoResult, error |-> "", results_set |-> 0,
     total |-> 0, i |-> 0, processed |-> 0, failed |-> 0, skipped |-> 0,
     commit_count |-> 0, current_batch |-> 0, pending |-> 0, committed |-> 0,
     stops |-> 0, at |-> "none", escaped |-> "none", moves |-> {}]

\* No job of that kind was constructed.
NoJob == [job_type |-> "none", status |-> "PENDING", pc |-> "absent"]

\* What the commit of a batch does: it succeeds, or raises, with or without
\* "Database error" in the message.
CommitOutcomes == {"ok", "raises", "raises_database_error"}

\* Leaving `async with self.get_async_session()`: the session is released,
\* with a commit on a normal exit and a rollback on an exception.
ReleaseSession(ej, normal) ==
    IF normal
    THEN [ej EXCEPT !.committed = @ + ej.pending, !.pending = 0]
    ELSE [ej EXCEPT !.pending = 0]

\* The outer except clause of start() without its call of fail().
EmbedFailNoFail(ej, error) ==
    [ReleaseSession(ej, FALSE) EXCEPT !.pc = "returned"]

\* The outer except clause of start().
EmbedFail(ej, error) ==
    [Fail(ReleaseSession(ej, FALSE), error) EXCEPT !.pc = "returned"]

\* The end of start() after the loop: the session is released, the result is
\* built and the job completes; a complete() that raises is met by the outer
\* except clause.
EmbedFinish(ej, complete) ==
    LET done == ReleaseSession(ej, TRUE)
    IN  IF complete = "ok"
        THEN [Complete(done, JobResult(done.failed = 0, "Generated embeddings"))
                EXCEPT !.pc = "returned"]
        ELSE EmbedFail(done, "complete failed")

\* The head of the loop: the next asset, or the end of the loop.
EmbedNext(ej, complete) ==
    IF ej.i + 1 < ej.total
    THEN [ej EXCEPT !.i = @ + 1, !.pc = "loop"]
    ELSE EmbedFinish([ej EXCEPT !.i = @ + 1], complete)

\* The except clause of the loop body: the failure is counted; a message
\* with "Database error" ends the job, any other lets the loop go on.  The
\* rollback() of these lines is never awaited, so nothing is rolled back.
EmbedOnException(ej, database_error, complete) ==
    LET counted == [ej EXCEPT !.failed = @ + 1]
    IN  IF database_error
        THEN EmbedFail(counted, "Database error")
        ELSE EmbedNext(counted, complete)

\* An except clause that catches whatever is raised.
EmbedExceptAll(exc) == TRUE

\* `except Exception` of start(), the loop's clauses and the outer one: the
\* classes it catches.
EmbedExcept(exc) == exc = "Exception"

\* The loop body for asset i (counted from 0), up to the await of
\* session.commit().
EmbedAssetBody(ej, outcome, complete) ==
    CASE outcome = "raises" -> EmbedOnException(ej, FALSE, complete)
      [] outcome = "raises_database_error" -> EmbedOnException(ej, TRUE, complete)
      [] outcome = "empty" -> EmbedNext([ej EXCEPT !.skipped = @ + 1], complete)
      [] outcome = "ok" ->
            LET updated == [ej EXCEPT !.pending = @ + 1, !.processed = @ + 1,
                                      !.current_batch = @ + 1]
                should_commit == \/ updated.current_batch >= BATCH_SIZE
                                 \/ updated.i = updated.total - 1
            IN  IF should_commit /\ updated.current_batch > 0
                THEN [updated EXCEPT !.pc = "commit"]
                ELSE EmbedNext(updated, complete)

\* The rest of the loop body, once session.commit() has returned or raised.
EmbedCommitBody(ej, commit, complete) ==
    IF commit = "ok"
    THEN EmbedNext([ej EXCEPT !.committed = @ + ej.pending, !.pending = 0,
                              !.commit_count = @ + 1, !.current_batch = 0],
                   complete)
    ELSE \* await session.rollback(), then raise
         EmbedOnException([ej EXCEPT !.pending = 0],
                          commit = "raises_database_error", complete)

\* start() up to the loop: the session is opened and the assets are queried.
EmbedStart ==
    /\ embed.pc = "init"
    /\ \E query_ok \in BOOLEAN, total \in 0 .. MaxAssets, complete \in CompleteOutcomes :
          LET ej == [MarkRunning(embed) EXCEPT !.total = total]
          IN  embed' = IF ~ query_ok THEN EmbedFail([ej EXCEPT !.total = 0], "query failed")
                       ELSE IF total = 0 THEN EmbedFinish(ej, complete)
                       ELSE [ej EXCEPT !.pc = "loop"]
    /\ UNCHANGED <<busVars, proxyVars, autobot, managerVars, serviceVars>>

\* One iteration of the loop, up to its commit.
EmbedAsset ==
    /\ embed.pc = "loop"
    /\ \E outcome \in {"ok", "empty", "raises", "raises_database_error"}, complete \in CompleteOutcomes :
          embed' = EmbedAssetBody(embed, outcome, complete)
    /\ UNCHANGED <<busVars, proxyVars, autobot, managerVars, serviceVars>>

\* session.commit() returns or raises, and the loop goes on.
EmbedCommit ==
    /\ embed.pc = "commit"
    /\ \E commit \in CommitOutcomes, complete \in CompleteOutcomes :
          embed' = EmbedCommitBody(embed, commit, complete)
    /\ UNCHANGED <<busVars, proxyVars, autobot, managerVars, serviceVars>>

\* The CancelledError of a stop request reaches start() at the await where
\* it is suspended: the clauses around the await see it first (the one
\* around the commit rolls back and raises again); uncaught, it ends the
\* coroutine, and the session is released on the way out.
EmbedCancelled ==
    /\ embed.pc = "cancelling"
    /\ embed' = IF EmbedExcept("CancelledError")
                THEN EmbedOnException(
                        [embed EXCEPT !.pending = IF embed.at = "commit" THEN 0 ELSE @],
                        FALSE, "ok")
                ELSE [ReleaseSession(embed, FALSE) EXCEPT !.pc = "cancelled"]
    /\ UNCHANGED <<busVars, proxyVars, autobot, managerVars, serviceVars>>

(***************************************************************************)
(* AutobotJob.start                                                        *)
(***************************************************************************)
NewAutobotJob ==
    [job_type |-> "autobot", status |-> "PENDING", pc |-> "init",
     result |-> NoResult, error |-> "", results_set |-> 0,
     stops |-> 0, at |-> "none", escaped |-> "none", moves |-> {}]

\* result.data.get("result", "Task completed successfully")
AutobotMessage(text) ==
    CASE text = "missing" -> "Task completed successfully"
      [] text = "empty"   -> ""
      [] text = "text"    -> "agent message"

\* result.error or "Task failed without specific error message"
AutobotError(text) ==
    IF text = "text" THEN "agent error"
    ELSE "Task failed without specific error message"

\* str(e)
ExceptionText(text) == IF text = "text" THEN "exception message" ELSE ""

\* The else branch of start(): the task failed.
AutobotTaskFailed(aj, text) ==
    [Fail(aj, AutobotError(text)) EXCEPT !.pc = "returned"]

\* An except clause that returns without a call of fail().
AutobotOnExceptionSwallows(aj, text, logger_ok) ==
    [aj EXCEPT !.pc = "returned"]

\* The except clause of start().  AutobotJob does not set self.logger
\* itself: where Job does not either, the clause raises AttributeError
\* before fail() is called, and the exception leaves start().
AutobotOnException(aj, text, logger_ok) ==
    IF logger_ok
    THEN [Fail(aj, ExceptionText(text)) EXCEPT !.pc = "returned"]
    ELSE HarnessCatch(aj, "AttributeError")

\* A success branch that goes on into the call of fail().
AutobotSucceededThenFails(aj, text, complete, logger_ok) ==
    AutobotTaskFailed(Complete(aj, JobResult(TRUE, AutobotMessage(text))), text)

\* The success branch of start(); a complete() that raises is met by the
\* except clause.
AutobotSucceeded(aj, text, complete, logger_ok) ==
    IF complete = "ok"
    THEN [Complete(aj, JobResult(TRUE, AutobotMessage(text))) EXCEPT !.pc = "returned"]
    ELSE AutobotOnException(aj, "text", logger_ok)

\* `except Exception` of start(): the classes it catches.
AutobotExcept(exc) == exc = "Exception"

\* start() up to the await of agent.execute_task.
AutobotStart ==
    /\ autobot.pc = "init"
    /\ autobot' = [MarkRunning(autobot) EXCEPT !.pc = "execute"]
    /\ UNCHANGED <<busVars, proxyVars, embed, managerVars, serviceVars>>

\* execute_task returns or raises, and start() runs to its end.
AutobotReply ==
    /\ autobot.pc = "execute"
    /\ \E o \in {[kind |-> k, text |-> t] : k \in {"success", "failure", "raises"}, t \in {"missing", "empty", "text"}}, complete \in CompleteOutcomes, logger_ok \in BOOLEAN :
          autobot' =
            CASE o.kind = "success" -> AutobotSucceeded(autobot, o.text, complete, logger_ok)
              [] o.kind = "failure" -> AutobotTaskFailed(autobot, o.text)
              [] o.kind = "raises"  -> AutobotOnException(autobot, o.text, logger_ok)
    /\ UNCHANGED <<busVars, proxyVars, embed, managerVars, serviceVars>>

\* The CancelledError of a stop request reaches start() at its await.
AutobotCancelled ==
    /\ autobot.pc = "cancelling"
    /\ autobot' = IF AutobotExcept("CancelledError")
                  THEN AutobotOnException(autobot, "missing", TRUE)
                  ELSE [autobot EXCEPT !.pc = "cancelled"]
    /\ UNCHANGED <<busVars, proxyVars, embed, managerVars, serviceVars>>

(***************************************************************************)
(* JobManager.stop_job                                                     *)
(***************************************************************************)
\* Bound: the stop_job calls made in one behaviour.
MaxStops == 2

\* What a stop_job call leaves in stop_calls.
StopCall(jr) ==
    [n |-> stop_calls.n + 1, job_type |-> jr.job_type, before |-> jr.status,
     raised |-> FALSE]

\* stop_job(job_id) for the job of that identifier, whichever kind it is.
StopJob ==
    /\ stop_calls.n < MaxStops
    /\ \/ \E j \in 1 .. Len(jobs) :
            /\ jobs' = [jobs EXCEPT ![j] = Stop(@)]
            /\ stop_calls' = StopCall(jobs[j])
            /\ UNCHANGED <<embed, autobot>>
       \/ /\ embed.pc # "absent"
          /\ embed' = Stop(embed)
          /\ stop_calls' = StopCall(embed)
          /\ UNCHANGED <<jobs, autobot>>
       \/ /\ autobot.pc # "absent"
          /\ autobot' = Stop(autobot)
          /\ stop_calls' = StopCall(autobot)
          /\ UNCHANGED <<jobs, embed>>
    /\ UNCHANGED <<db, chain, height, emitted, implChanges, run, lastEventRun>>
    /\ UNCHANGED <<serviceVars, busVars, registry, objects, executes>>

(***************************************************************************)
(* JobManager and FileSearchAction.execute                                 *)
(***************************************************************************)
\* Bound: the calls of FileSearchAction.execute in flight together.
MaxSubmits == 3

\* A job handed to the manager, as constructed.
NewManagedJob ==
    [job_type |-> "file_search", status |-> "PENDING", pc |-> "init",
     result |-> NoResult, error |-> "", results_set |-> 0,
     stops |-> 0, at |-> "none", escaped |-> "none", moves |-> {}]

\* The identifier submit_job assigns: one no job of the process has had.
NewId(reg) == Len(reg) + 1

\* The registry with the job stored under the identifier.
Store(reg, id, job) ==
    IF \E k \in 1 .. Len(reg) : reg[k].id = id
    THEN [k \in 1 .. Len(reg) |-> IF reg[k].id = id THEN [id |-> id, job |-> job] ELSE reg[k]]
    ELSE Append(reg, [id |-> id, job |-> job])

\* JobManager.submit_job(job): the registry afterwards.
SubmitJob(reg, job) == Store(reg, NewId(reg), job)

\* JobManager.list_jobs(): a summary for every job of the registry.
ListJobs ==
    [k \in 1 .. Len(registry) |->
        [id |-> registry[k].id, status |-> objects[registry[k].job].status]]

NotFound == [job_type |-> "not-found"]

\* JobManager.get_job(job_id), over a registry and the jobs it refers to.
GetJobIn(reg, objs, job_id) ==
    IF \E k \in 1 .. Len(reg) : reg[k].id = job_id
    THEN objs[reg[CHOOSE k \in 1 .. Len(reg) : reg[k].id = job_id].job]
    ELSE NotFound

\* JobManager.get_job(job_id)
GetJob(job_id) == GetJobIn(registry, objects, job_id)

\* An execute that submits the job an earlier call has made.
FileSearchJobShared(objs) ==
    IF objs = <<>> THEN Append(objs, NewManagedJob) ELSE objs

\* job = FileSearchJob(regex_pattern=regex): a new job object.
FileSearchJob(objs) == Append(objs, NewManagedJob)

\* An execute that awaits the job's start() itself before it returns.
ExecuteAwaitsJob(a) ==
    /\ executes[a].pc = "init"
    /\ objects' = Append(objects,
          [Complete(MarkRunning(NewManagedJob), JobResult(TRUE, "done"))
              EXCEPT !.pc = "returned"])
    /\ registry' = SubmitJob(registry, Len(objects'))
    /\ executes' = [executes EXCEPT ![a] =
          [pc |-> "returned", job_id |-> NewId(registry), job |-> Len(objects')]]
    /\ UNCHANGED <<serviceVars, busVars, proxyVars, otherJobVars, stop_calls>>

\* FileSearchAction.execute: the job is made and submitted, and the text
\* with its identifier returned; an exception of the constructor or of
\* submit_job is logged and raised again.
Execute(a) ==
    /\ executes[a].pc = "init"
    /\ \E raises \in BOOLEAN :
          IF raises
          THEN /\ executes' = [executes EXCEPT ![a].pc = "raised"]
               /\ UNCHANGED <<registry, objects>>
          ELSE /\ objects' = FileSearchJob(objects)
               /\ registry' = SubmitJob(registry, Len(objects'))
               /\ executes' = [executes EXCEPT ![a] =
                     [pc |-> "returned", job_id |-> NewId(registry),
                      job |-> Len(objects')]]
    /\ UNCHANGED <<serviceVars, busVars, proxyVars, otherJobVars, stop_calls>>

\* The task submit_job has scheduled begins start().
ManagedStart(o) ==
    /\ objects[o].pc = "init"
    /\ objects' = [objects EXCEPT ![o] = [MarkRunning(@) EXCEPT !.pc = "running"]]
    /\ UNCHANGED <<serviceVars, busVars, proxyVars, otherJobVars, stop_calls, registry, executes>>

\* start() ends: the job completes, or fails.
ManagedEnd(o) ==
    /\ objects[o].pc = "running"
    /\ \E success \in BOOLEAN :
          objects' = [objects EXCEPT ![o] =
              [(IF success THEN Complete(@, JobResult(TRUE, "done"))
                           ELSE Fail(@, "error")) EXCEPT !.pc = "returned"]]
    /\ UNCHANGED <<serviceVars, busVars, proxyVars, otherJobVars, stop_calls, registry, executes>>

\* The CancelledError of a stop request ends the job's task.
ManagedCancelled(o) ==
    /\ objects[o].pc = "cancelling"
    /\ objects' = [objects EXCEPT ![o].pc = "cancelled"]
    /\ UNCHANGED <<serviceVars, busVars, proxyVars, otherJobVars, stop_calls, registry, executes>>

\* JobManager.stop_job(job_id) for a job of the registry.
ManagedStop(k) ==
    /\ stop_calls.n < MaxStops
    /\ objects' = [objects EXCEPT ![registry[k].job] = Stop(@)]
    /\ stop_calls' = StopCall(objects[registry[k].job])
    /\ UNCHANGED <<serviceVars, busVars, proxyVars, otherJobVars, registry, executes>>

(***************************************************************************)
(* WatcherManager.start and WatcherManager.stop                            *)
(***************************************************************************)
\* Bounds: the length of active_watchers, and the calls of stop().
MaxActive == 2
MaxWatcherStops == 2

Discovered == {"github", "immunefi"}

\* The sequences over S of length at most n.
SeqsUpTo(S, n) == UNION {[1 .. m -> S] : m \in 0 .. n}

\* The `watchers` section of the configuration as the schema admits it:
\* whether the key is there, the keys of the section, and their values
\* (FALSE and <<>> where the key is missing).
WatcherConfigs ==
    {c \in [present : BOOLEAN,
            keys : SUBSET {"enabled", "active_watchers", "webhook_port"},
            enabled : BOOLEAN,
            active_watchers : SeqsUpTo({"github", "immunefi", "ghost"}, MaxActive)] :
        /\ ~ c.present => c.keys = {}
        /\ "enabled" \notin c.keys => ~ c.enabled
        /\ "active_watchers" \notin c.keys => c.active_watchers = <<>>}

NoSection == [present |-> FALSE, keys |-> {}, enabled |-> FALSE, active_watchers |-> <<>>]

\* WatcherManager.__init__
NewWatcherManager(c) ==
    [config |-> c, pc |-> "idle", start |-> "none", webhook_server |-> "none",
     watchers |-> <<>>, k |-> 0, results |-> <<>>,
     stop_tasks |-> <<>>, stops |-> 0, last_stop |-> "none"]

\* `if not watcher_config or "enabled" not in watcher_config`
NoWatcherConfig(c) == (~ c.present \/ c.keys = {}) \/ "enabled" \notin c.keys

\* A test that any section passes.
WatchersDisabledNever(c) == FALSE

\* `if not watcher_config.get("enabled")`
WatchersDisabled(c) == ~ ("enabled" \in c.keys /\ c.enabled)

\* watcher_config.get("active_watchers", [])
ActiveWatchers(c) == IF "active_watchers" \in c.keys THEN c.active_watchers ELSE <<>>

\* self.watchers[watcher_name] = watcher: a dict keeps the place of a key
\* it holds already.
PutWatcher(table, name) ==
    IF \E i \in 1 .. Len(table) : table[i] = name THEN table ELSE Append(table, name)

\* list_watchers(): list(self.watchers.keys())
ListWatchers(table) == table

\* start() has returned, or raised.
StartEnds(w, how) == [w EXCEPT !.pc = "idle", !.start = how]

\* The head of the loop over active_watchers: a name with no class is
\* logged and passed over; the loop stops at the next watcher to construct,
\* or ends, and start() returns.
RECURSIVE NextWatcher(_)
NextWatcher(w) ==
    LET active == ActiveWatchers(w.config)
    IN  IF w.k >= Len(active) THEN StartEnds(w, "returned")
        ELSE IF active[w.k + 1] \in Discovered
        THEN [w EXCEPT !.k = @ + 1, !.pc = "initialize"]
        ELSE NextWatcher([w EXCEPT !.k = @ + 1, !.results = Append(@, "not_found")])

\* A loop that a failing watcher ends.
WatcherStartedOrAbort(w, outcome) ==
    IF outcome = "ok"
    THEN NextWatcher([w EXCEPT !.results = Append(@, outcome),
                               !.watchers = PutWatcher(@, ActiveWatchers(w.config)[w.k])])
    ELSE StartEnds([w EXCEPT !.results = Append(@, outcome)], "returned")

\* The try block of the loop for watcher k and its except clause: the
\* watcher is entered in the table when its constructor and initialize()
\* have returned; a failure is logged.  Either way the loop goes on.
WatcherStarted(w, outcome) ==
    NextWatcher([w EXCEPT !.results = Append(@, outcome),
                          !.watchers = IF outcome = "ok"
                                       THEN PutWatcher(@, ActiveWatchers(w.config)[w.k])
                                       ELSE @])

\* start() up to `await WebhookServer.get_instance()`.
WatchersStart ==
    /\ wm.pc = "idle" /\ wm.start = "none"
    /\ wm' = IF \/ NoWatcherConfig(wm.config)
                \/ WatchersDisabled(wm.config)
                \/ ActiveWatchers(wm.config) = <<>>
             THEN StartEnds(wm, "returned")
             ELSE [wm EXCEPT !.pc = "get_instance"]
    /\ UNCHANGED <<cfg, qb, busVars, proxyVars, otherJobVars, managerVars>>

\* WebhookServer.get_instance() returns the server, or raises out of start().
WebhookInstance ==
    /\ wm.pc = "get_instance"
    /\ \E ok \in BOOLEAN :
          wm' = IF ok THEN [wm EXCEPT !.webhook_server = "instance", !.pc = "server_start"]
                ELSE StartEnds(wm, "raised")
    /\ UNCHANGED <<cfg, qb, busVars, proxyVars, otherJobVars, managerVars>>

\* webhook_server.start(port) returns, and the loop is entered, or raises
\* out of start().
WebhookStart ==
    /\ wm.pc = "server_start"
    /\ \E ok \in BOOLEAN :
          wm' = IF ok THEN NextWatcher([wm EXCEPT !.webhook_server = "started"])
                ELSE StartEnds(wm, "raised")
    /\ UNCHANGED <<cfg, qb, busVars, proxyVars, otherJobVars, managerVars>>

\* The constructor and initialize() of watcher k return or raise.
WatcherInitialize ==
    /\ wm.pc = "initialize"
    /\ \E outcome \in {"ok", "constructor_raises", "initialize_raises"} : wm' = WatcherStarted(wm, outcome)
    /\ UNCHANGED <<cfg, qb, busVars, proxyVars, otherJobVars, managerVars>>

\* stop() has returned, or raised.
StopEnds(w, how) == [w EXCEPT !.pc = "idle", !.stops = @ + 1, !.last_stop = how]

\* self.watchers.clear(), the last statement of stop().
ClearWatchers(w) == StopEnds([w EXCEPT !.watchers = <<>>], "returned")

\* `if self.webhook_server: await self.webhook_server.stop()`
StopServer(w) ==
    IF w.webhook_server # "none" THEN [w EXCEPT !.pc = "server_stop"]
    ELSE ClearWatchers(w)

\* asyncio.gather(*stop_tasks) without return_exceptions: the first
\* exception of a task is raised to the caller.
GatherRaised(tasks) == \E i \in 1 .. Len(tasks) : tasks[i].st = "raised"

\* stop() up to `await asyncio.gather(*stop_tasks)`: watcher.stop() is
\* called for every watcher of the table.
WatchersStop ==
    /\ wm.pc = "idle" /\ wm.start # "none"
    /\ wm.stops < MaxWatcherStops
    /\ LET tasks == [i \in 1 .. Len(wm.watchers) |-> [name |-> wm.watchers[i], st |-> "pending"]]
           w == [wm EXCEPT !.stop_tasks = tasks]
       IN  wm' = IF tasks # <<>> THEN [w EXCEPT !.pc = "gather"] ELSE StopServer(w)
    /\ UNCHANGED <<cfg, qb, busVars, proxyVars, otherJobVars, managerVars>>

\* The stop() of one watcher returns or raises.
WatcherStops(i) ==
    /\ wm.stop_tasks[i].st = "pending"
    /\ \E ok \in BOOLEAN :
          wm' = [wm EXCEPT !.stop_tasks[i].st = IF ok THEN "done" ELSE "raised"]
    /\ UNCHANGED <<cfg, qb, busVars, proxyVars, otherJobVars, managerVars>>

\* gather raises into stop(), which has no except clause, or returns when
\* every task is done.
GatherStopsEnds ==
    /\ wm.pc = "gather"
    /\ \/ GatherRaised(wm.stop_tasks) /\ wm' = StopEnds(wm, "raised")
       \/ /\ \A i \in 1 .. Len(wm.stop_tasks) : wm.stop_tasks[i].st # "pending"
          /\ ~ GatherRaised(wm.stop_tasks)
          /\ wm' = StopServer(wm)
    /\ UNCHANGED <<cfg, qb, busVars, proxyVars, otherJobVars, managerVars>>

\* webhook_server.stop() returns, and the table is cleared, or raises out
\* of stop().
WebhookStop ==
    /\ wm.pc = "server_stop"
    /\ \E ok \in BOOLEAN :
          wm' = IF ok THEN ClearWatchers([wm EXCEPT !.webhook_server = "stopped"])
                ELSE StopEnds(wm, "raised")
    /\ UNCHANGED <<cfg, qb, busVars, proxyVars, otherJobVars, managerVars>>

(***************************************************************************)
(* Config: the singleton and load_config                                   *)
(***************************************************************************)
\* Bound: the calls of Config() in one behaviour.
MaxLoads == 3

\* What the configuration file may be: missing, not YAML, empty (YAML
\* loads it as None), YAML whose root is no dictionary, a dictionary the
\* schema rejects, and a dictionary the schema accepts.
FileKinds == {"missing", "yaml_error", "empty", "not_dict", "schema_invalid", "valid"}

\* yaml.safe_load(f) for a file that parses: the content, None for an
\* empty file.
SafeLoad(file) == IF file = "empty" THEN "None" ELSE file

\* The class as imported: no instance, _config = None.
NewConfig ==
    [instance |-> FALSE, config |-> "None", file |-> "valid", loads |-> 0,
     last |-> "none", rejected |-> {}, reads |-> "none"]

\* load_config(): the file is opened and parsed, the result is assigned to
\* self._config, and then the root and the schema are checked; every
\* failure is raised as ValueError.
LoadConfig(c) ==
    IF c.file \in {"missing", "yaml_error"}
    THEN [c EXCEPT !.last = "raised"]
    ELSE LET loaded == [c EXCEPT !.config = SafeLoad(c.file)]
         IN  IF c.file = "valid"
             THEN [loaded EXCEPT !.last = "returned"]
             ELSE [loaded EXCEPT !.last = "raised",
                                 !.rejected = IF c.file = "empty" THEN @
                                              ELSE @ \cup {c.file}]

\* Config(): __new__ makes the instance once, __init__ loads the file when
\* _config is None.
ConfigCall ==
    /\ cfg.loads < MaxLoads
    /\ LET c == [cfg EXCEPT !.instance = TRUE, !.loads = @ + 1, !.reads = "none"]
       IN  cfg' = IF c.config = "None" THEN LoadConfig(c)
                  ELSE [c EXCEPT !.last = "returned"]
    /\ UNCHANGED <<wm, qb, busVars, proxyVars, otherJobVars, managerVars>>

\* The caller that Config() returned to reads a value with get().
ConfigGet ==
    /\ cfg.last = "returned"
    /\ cfg.reads = "none"
    /\ cfg' = [cfg EXCEPT !.reads = cfg.config]
    /\ UNCHANGED <<wm, qb, busVars, proxyVars, otherJobVars, managerVars>>

\* The file is written anew between two calls.
EditFile(file) ==
    /\ cfg.file # file
    /\ cfg' = [cfg EXCEPT !.file = file]
    /\ UNCHANGED <<wm, qb, busVars, proxyVars, otherJobVars, managerVars>>

(***************************************************************************)
(* QueryBuilder                                                            *)
(***************************************************************************)
\* Bounds: the calls made on one builder, and the fields of one select().
MaxCalls == 2
MaxFields == 2

\* The columns of the two tables a query may name.
Columns(table) ==
    IF table = "Asset" THEN {"id", "project_id", "source_url"}
    ELSE IF table = "Project" THEN {"id", "name", "platform"}
    ELSE {}

\* str.lower() on the table names and the directions used here.
Lower(name) ==
    IF name = "Assets" THEN "assets"
    ELSE IF name = "Projects" THEN "projects"
    ELSE IF name = "DESC" THEN "desc"
    ELSE name

\* The class a table name stands for, "None" for a name that is no table.
TableOf(name) ==
    IF Lower(name) = "assets" THEN "Asset"
    ELSE IF Lower(name) = "projects" THEN "Project"
    ELSE "None"

\* A field string, as the parts field.split(".") gives: one part when the
\* string has no dot.
FieldStrings ==
    {<<"assets", "id">>, <<"Projects", "name">>, <<"assets", "nope">>,
     <<"users", "id">>, <<"id">>, <<"assets", "id", "x">>, <<"RANDOM()">>}

AllowedOperators == {"=", "!=", ">", "<", ">=", "<=", "like", "ilike", "in",
                     "not in", "is null", "is not null", "?", "?*"}

\* The arguments of limit() and offset(): integers, and one that is none.
Amounts == {[isint |-> TRUE, v |-> -1], [isint |-> TRUE, v |-> 0],
            [isint |-> TRUE, v |-> 5], [isint |-> FALSE, v |-> 0]}

\* QueryBuilder(): nothing selected, joined or restricted.
NewQueryBuilder ==
    [table |-> "None", joins |-> <<>>, conditions |-> <<>>,
     order_by |-> <<>>, limit |-> "None", offset |-> "None",
     selected_fields |-> {}, calls |-> 0, last |-> "none"]

\* A call on the builder ends: with ValueError, or by returning self.
Raises(q) == [q EXCEPT !.last = "raised", !.calls = @ + 1]
Returns(q) == [q EXCEPT !.last = "returned", !.calls = @ + 1]

\* from_table(table) for a table given by name.
FromTable(name) ==
    /\ qb.calls < MaxCalls
    /\ qb' = IF TableOf(name) = "None" THEN Raises(qb)
             ELSE Returns([qb EXCEPT !.table = TableOf(name)])
    /\ UNCHANGED <<wm, cfg, busVars, proxyVars, otherJobVars, managerVars>>

\* join(table_name, on): on is the sequence of the items of the dictionary;
\* the join is appended once every item has its two fields.
Join(name, on) ==
    /\ qb.calls < MaxCalls
    /\ qb' = IF qb.table = "None" THEN Raises(qb)
             ELSE IF TableOf(name) = "None" THEN Raises(qb)
             ELSE IF \E i \in 1 .. Len(on) :
                         \/ on[i][1] \notin Columns(qb.table)
                         \/ on[i][2] \notin Columns(TableOf(name))
                  THEN Raises(qb)
             ELSE Returns([qb EXCEPT !.joins = Append(@, <<TableOf(name), on>>)])
    /\ UNCHANGED <<wm, cfg, busVars, proxyVars, otherJobVars, managerVars>>

\* The loop of select() from the i-th field on: a field is checked and
\* added before the next one is looked at.
RECURSIVE SelectFrom(_, _, _)
SelectFrom(q, fields, i) ==
    IF i > Len(fields) THEN Returns(q)
    ELSE LET field == fields[i]
         IN  IF Len(field) = 1 THEN Raises(q)
             ELSE IF Len(field) # 2 THEN Raises(q)
             ELSE IF TableOf(field[1]) = "None" THEN Raises(q)
             ELSE IF field[2] \notin Columns(TableOf(field[1])) THEN Raises(q)
             ELSE SelectFrom([q EXCEPT !.selected_fields =
                                  @ \cup {<<TableOf(field[1]), field[2]>>}],
                             fields, i + 1)

\* select(fields...)
Select(fields) ==
    /\ qb.calls < MaxCalls
    /\ qb' = IF qb.table = "None" THEN Raises(qb) ELSE SelectFrom(qb, fields, 1)
    /\ UNCHANGED <<wm, cfg, busVars, proxyVars, otherJobVars, managerVars>>

\* The table and the field name that where() and order_by() make of a
\* field: "raise" when the split or the table name fails.
Resolve(q, field) ==
    IF Len(field) > 1
    THEN IF Len(field) # 2 THEN "raise"
         ELSE IF TableOf(field[1]) = "None" THEN "raise"
         ELSE <<TableOf(field[1]), field[2]>>
    ELSE IF q.table = "None" THEN "raise"
    ELSE <<q.table, field[1]>>

\* where(field, operator, value)
Where(field, operator) ==
    /\ qb.calls < MaxCalls
    /\ qb' = IF operator \notin AllowedOperators THEN Raises(qb)
             ELSE LET r == Resolve(qb, field)
                  IN  IF r = "raise" THEN Raises(qb)
                      ELSE IF r[2] \notin Columns(r[1]) THEN Raises(qb)
                      ELSE Returns([qb EXCEPT !.conditions =
                                        Append(@, <<r[1], r[2], operator>>)])
    /\ UNCHANGED <<wm, cfg, busVars, proxyVars, otherJobVars, managerVars>>

\* order_by(field, direction): a field that ends with "()" is taken as a
\* SQL function.
OrderBy(field, direction) ==
    /\ qb.calls < MaxCalls
    /\ qb' = IF Lower(direction) \notin {"asc", "desc"} THEN Raises(qb)
             ELSE IF field[Len(field)] = "RANDOM()"
             THEN Returns([qb EXCEPT !.order_by = Append(@, <<"text", field[1], "">>)])
             ELSE LET r == Resolve(qb, field)
                  IN  IF r = "raise" THEN Raises(qb)
                      ELSE IF r[2] \notin Columns(r[1]) THEN Raises(qb)
                      ELSE Returns([qb EXCEPT !.order_by =
                                        Append(@, <<r[1], r[2], Lower(direction)>>)])
    /\ UNCHANGED <<wm, cfg, busVars, proxyVars, otherJobVars, managerVars>>

\* limit(limit)
Limit(n) ==
    /\ qb.calls < MaxCalls
    /\ qb' = IF ~n.isint \/ n.v < 0 THEN Raises(qb)
             ELSE Returns([qb EXCEPT !.limit = n.v])
    /\ UNCHANGED <<wm, cfg, busVars, proxyVars, otherJobVars, managerVars>>

\* offset(offset)
Offset(n) ==
    /\ qb.calls < MaxCalls
    /\ qb' = IF ~n.isint \/ n.v < 0 THEN Raises(qb)
             ELSE Returns([qb EXCEPT !.offset = n.v])
    /\ UNCHANGED <<wm, cfg, busVars, proxyVars, otherJobVars, managerVars>>

\* The state of the assets, the chain and the bus before any job runs.
InitCore(rows) ==
    /\ db = rows
    /\ chain = [u \in ChainContracts(InitialAssets) |-> <<>>]
    /\ height = 0
    /\ emitted = <<>>
    /\ implChanges = [i \in 1 .. Len(rows) |-> 0]
    /\ run = [id |-> 0, queried |-> FALSE, db0 |-> <<>>, inputs |-> <<>>, prevClean |-> {}, prevFaultFree |-> TRUE]
    /\ lastEventRun = 0
    /\ handlers = EmptyRegistry
    /\ regCount = 0
    /\ call = [pc |-> "idle", trigger |-> "none", plan |-> <<>>, raised |-> FALSE, registry_before |-> EmptyRegistry]
    /\ handler_tasks = <<>>
    /\ busLog = <<>>
    /\ stop_calls = [n |-> 0, job_type |-> "none", before |-> "none", raised |-> FALSE]
    /\ registry = <<>>
    /\ objects = <<>>
    /\ executes = [a \in 1 .. MaxSubmits |-> [pc |-> "init", job_id |-> 0, job |-> 0]]

\* A process whose configuration has no watchers section.
InitServices == wm = NewWatcherManager(NoSection) /\ cfg = NewConfig /\ qb = NewQueryBuilder

InitStored(rows) == InitCore(rows) /\ InitServices

\* The process over the assets the indexer stored.
InitWorld == InitStored(InitialAssets)

\* The jobs constructed: proxy monitor jobs, an EmbedJob or an AutobotJob.
InitJobs(job_type, runs) ==
    /\ jobs = IF job_type = "proxy_monitor"
              THEN [j \in 1 .. runs |-> NewJob(j, "proxy_monitor")] ELSE <<>>
    /\ embed = IF job_type = "embed" THEN NewEmbedJob ELSE NoJob
    /\ autobot = IF job_type = "autobot" THEN NewAutobotJob ELSE NoJob

InitBus == InitWorld /\ InitJobs("none", 0)

InitProxy == InitWorld /\ InitJobs("proxy_monitor", MaxRuns)

InitProxyBus == InitWorld /\ InitJobs("proxy_monitor", 1)

InitAnyJob == InitWorld /\ \E job_type \in {"proxy_monitor", "embed", "autobot"} : InitJobs(job_type, 1)

\* Two proxy monitor jobs submitted together.
InitProxyRace == InitWorld /\ InitJobs("proxy_monitor", 2)

\* A WatcherManager over any configuration the schema admits.
InitWatchers ==
    /\ InitCore(InitialAssets)
    /\ InitJobs("none", 0)
    /\ wm \in {NewWatcherManager(c) : c \in WatcherConfigs}
    /\ cfg = NewConfig
    /\ qb = NewQueryBuilder

\* A process that has not made its Config yet, over any file.
InitConfig ==
    /\ InitCore(InitialAssets)
    /\ InitJobs("none", 0)
    /\ wm = NewWatcherManager(NoSection)
    /\ cfg \in {[NewConfig EXCEPT !.file = f] : f \in FileKinds}
    /\ qb = NewQueryBuilder

InitProxyIndexed == InitStored(IndexedAssets) /\ InitJobs("proxy_monitor", MaxRuns)

NextBus ==
    \/ \E h \in HandlerClasses : RegisterHandler(h)
    \/ \E t \in Triggers : TriggerEvent(t)
    \/ \E k \in 1 .. Len(handler_tasks) : HandlerStart(k)
    \/ \E k \in 1 .. Len(handler_tasks) : HandlerFinish(k)
    \/ GatherReturn

NextProxy ==
    \/ \E u \in ChainContracts(InitialAssets) : \E impl \in ImplAddrs : NewEvent(u, impl)
    \/ \E j \in 1 .. Len(jobs) : StartRun(j)
    \/ \E j \in 1 .. Len(jobs) : ExplorerReply(j)
    \/ \E j \in 1 .. Len(jobs) : FetchReply(j)
    \/ \E j \in 1 .. Len(jobs) : TriggerReturn(j)
    \/ \E j \in 1 .. Len(jobs) : CompleteReturns(j)

\* One run of ProxyMonitorJob whose events go through the bus to the
\* handlers registered there when the process started, over the chain as
\* it is when the run starts.
NextProxyBus ==
    \/ \E h \in HandlerClasses :
          (\A j \in 1 .. Len(jobs) : jobs[j].pc = "init") /\ RegisterHandler(h)
    \/ \E u \in ChainContracts(InitialAssets) : \E impl \in ImplAddrs :
          (\A j \in 1 .. Len(jobs) : jobs[j].pc = "init") /\ NewEvent(u, impl)
    \/ \E j \in 1 .. Len(jobs) : StartRun(j)
    \/ \E j \in 1 .. Len(jobs) : ExplorerReply(j)
    \/ \E j \in 1 .. Len(jobs) : FetchReply(j)
    \/ \E j \in 1 .. Len(jobs) : EmitTrigger(j)
    \/ \E k \in 1 .. Len(handler_tasks) : HandlerStart(k)
    \/ \E k \in 1 .. Len(handler_tasks) : HandlerFinish(k)
    \/ GatherReturn
    \/ \E j \in 1 .. Len(jobs) : TriggerEventReturns(j)
    \/ \E j \in 1 .. Len(jobs) : CompleteReturns(j)

\* The chain is watched only where proxy monitor jobs run.
NextJobs ==
    \/ \E u \in ChainContracts(InitialAssets) : \E impl \in ImplAddrs :
          jobs # <<>> /\ NewEvent(u, impl)
    \/ \E j \in 1 .. Len(jobs) : StartRun(j)
    \/ \E j \in 1 .. Len(jobs) : ExplorerReply(j)
    \/ \E j \in 1 .. Len(jobs) : FetchReply(j)
    \/ \E j \in 1 .. Len(jobs) : TriggerReturn(j)
    \/ \E j \in 1 .. Len(jobs) : CompleteReturns(j)
    \/ \E j \in 1 .. Len(jobs) : CompleteRaises(j)
    \/ \E j \in 1 .. Len(jobs) : ProxyCancelled(j)
    \/ EmbedStart
    \/ EmbedAsset
    \/ EmbedCommit
    \/ EmbedCancelled
    \/ AutobotStart
    \/ AutobotReply
    \/ AutobotCancelled
    \/ StopJob

\* The event bus alone.
SpecBus == InitBus /\ [][NextBus]_vars

\* Calls of FileSearchAction.execute in flight together, the jobs they
\* submit, and stop_job calls for them.
NextManager ==
    \/ \E a \in 1 .. MaxSubmits : Execute(a)
    \/ \E o \in 1 .. Len(objects) : ManagedStart(o)
    \/ \E o \in 1 .. Len(objects) : ManagedEnd(o)
    \/ \E o \in 1 .. Len(objects) : ManagedCancelled(o)
    \/ \E k \in 1 .. Len(registry) : ManagedStop(k)

\* Runs of ProxyMonitorJob, one after the other, while the chain moves on;
\* complete() returns and no run is stopped.
SpecProxy == InitProxy /\ [][NextProxy]_vars

\* The same runs where an asset for an implementation is stored already.
SpecProxyIndexed == InitProxyIndexed /\ [][NextProxy]_vars

\* Runs of ProxyMonitorJob in flight together, each with a session of its
\* own, over the chain as it is when the first of them starts; they
\* interleave at their awaits.
NextProxyRace ==
    \/ \E u \in ChainContracts(InitialAssets) : \E impl \in ImplAddrs :
          (\A j \in 1 .. Len(jobs) : jobs[j].pc = "init") /\ NewEvent(u, impl)
    \/ \E j \in 1 .. Len(jobs) : BeginRun(j)
    \/ \E j \in 1 .. Len(jobs) : ExplorerReply(j)
    \/ \E j \in 1 .. Len(jobs) : FetchReply(j)
    \/ \E j \in 1 .. Len(jobs) : TriggerReturn(j)
    \/ \E j \in 1 .. Len(jobs) : CompleteReturns(j)

SpecProxyRace == InitProxyRace /\ [][NextProxyRace]_vars

\* One run whose events go through the bus.
SpecProxyBus == InitProxyBus /\ [][NextProxyBus]_vars

\* The calls of execute and the jobs they submit, none of them stopped.
NextSubmit ==
    \/ \E a \in 1 .. MaxSubmits : Execute(a)
    \/ \E o \in 1 .. Len(objects) : ManagedStart(o)
    \/ \E o \in 1 .. Len(objects) : ManagedEnd(o)

\* The event loop runs every task that was scheduled.
FairSubmit == \A o \in 1 .. MaxSubmits : WF_vars(o <= Len(objects) /\ ManagedStart(o))

SpecSubmit == InitBus /\ [][NextSubmit]_vars /\ FairSubmit

\* One WatcherManager: start() at the start of the process, then stop().
NextWatchers ==
    \/ WatchersStart
    \/ WebhookInstance
    \/ WebhookStart
    \/ WatcherInitialize
    \/ WatchersStop
    \/ \E i \in 1 .. Len(wm.stop_tasks) : WatcherStops(i)
    \/ GatherStopsEnds
    \/ WebhookStop

SpecWatchers == InitWatchers /\ [][NextWatchers]_vars

\* The calls of Config() of one process, and the edits of the file.
NextConfig ==
    \/ ConfigCall
    \/ ConfigGet
    \/ \E file \in FileKinds : EditFile(file)

SpecConfig == InitConfig /\ [][NextConfig]_vars

\* A builder just made, or one whose base table is set.
InitQuery ==
    /\ InitCore(InitialAssets)
    /\ InitJobs("none", 0)
    /\ wm = NewWatcherManager(NoSection)
    /\ cfg = NewConfig
    /\ qb \in {NewQueryBuilder, [NewQueryBuilder EXCEPT !.table = "Asset"]}

\* The calls made on one QueryBuilder.
NextQuery ==
    \/ \E name \in {"assets", "Projects", "users"} : FromTable(name)
    \/ \E name \in {"assets", "Projects", "users"},
          on \in {<<>>, <<<<"project_id", "id">>>>, <<<<"nope", "id">>>>,
                  <<<<"project_id", "nope">>>>,
                  <<<<"project_id", "id">>, <<"nope", "id">>>>} : Join(name, on)
    \/ \E fields \in SeqsUpTo(FieldStrings, MaxFields) : Select(fields)
    \/ \E field \in FieldStrings, operator \in {"=", "like", "~"} : Where(field, operator)
    \/ \E field \in FieldStrings, direction \in {"asc", "DESC", "up"} : OrderBy(field, direction)
    \/ \E n \in Amounts : Limit(n)
    \/ \E n \in Amounts : Offset(n)

SpecQuery == InitQuery /\ [][NextQuery]_vars

SpecManager == InitBus /\ [][NextManager]_vars

\* One job, whichever was submitted: a ProxyMonitorJob, an EmbedJob or an
\* AutobotJob; complete() may raise, and the job may be stopped.
SpecJobs == InitAnyJob /\ [][NextJobs]_vars

(***************************************************************************)
(* Properties of the event bus                                             *)
(***************************************************************************)
\* The task created for entry i of the dispatched handler list, 0 for none.
TaskOf(i) ==
    IF \E k \in 1 .. Len(handler_tasks) : handler_tasks[k].entry = i
    THEN CHOOSE k \in 1 .. Len(handler_tasks) : handler_tasks[k].entry = i
    ELSE 0

\* C1: when trigger_event has returned, it has not raised, and every handler
\* of the event that does not itself raise (in its constructor, set_context
\* or handle) has had its handle() run once and to completion, whatever the
\* other handlers of the event did.
C1_SiblingsRunToCompletion ==
    call.pc = "returned" =>
        /\ ~ call.raised
        /\ \A i \in 1 .. Len(call.plan) :
              call.plan[i] = "ok" =>
                  /\ TaskOf(i) # 0
                  /\ handler_tasks[TaskOf(i)].st = "done"
                  /\ handler_tasks[TaskOf(i)].result = "returned"
                  /\ handler_tasks[TaskOf(i)].handled = 1

\* A call has returned in which one handler raised in handle(), another in
\* its constructor or set_context, or a sibling of a raising handler ran to
\* completion.
C1_Witness ==
    /\ call.pc = "returned"
    /\ Len(call.plan) = 2
    /\ \E i, k \in 1 .. 2 :
          /\ call.plan[i] \in {"handle_raises", "init_raises", "ctx_raises"}
          /\ call.plan[k] = "ok"
          /\ TaskOf(k) # 0
          /\ handler_tasks[TaskOf(k)].st = "done"

\* C9: when trigger_event has returned, every task it created is done: no
\* handle() it started is pending or still running.
C9_ReturnsAfterAllTasks ==
    call.pc = "returned" =>
        \A k \in 1 .. Len(handler_tasks) : handler_tasks[k].st = "done"

\* A call with two tasks has returned after a handler that raised finished
\* first.
C9_Witness ==
    /\ call.pc = "returned"
    /\ Len(handler_tasks) = 2
    /\ handler_tasks[1].fate = "handle_raises"
    /\ busLog = << <<"error", "execution_failed", 1>> >>

\* C10: a trigger_event for a trigger without registered handlers returns at
\* once without raising, creates no handler task and leaves the registry as
\* it was.
C10_NoHandlersIsNoOp ==
    [][\A t \in Triggers :
          (t \notin DOMAIN handlers /\ TriggerEvent(t)) =>
              /\ call'.pc = "returned"
              /\ ~ call'.raised
              /\ handler_tasks' = <<>>
              /\ handlers' = handlers]_vars

\* Such a call has returned while another trigger has a handler registered.
C10_Witness ==
    /\ call.pc = "returned"
    /\ call.trigger \notin DOMAIN call.registry_before
    /\ call.registry_before # EmptyRegistry
    /\ handlers = call.registry_before
    /\ ~ call.raised

\* The handler list of trigger t, empty when the registry has none.
Listed(reg, t) == IF t \in DOMAIN reg THEN reg[t] ELSE <<>>

\* The entries of a handler list that name class h.
EntriesOf(classes, h) == {i \in 1 .. Len(classes) : classes[i] = h}

EmittedFor(c) == SelectSeq(emitted, LAMBDA e : e.proxy = c)

\* The job of the latest run.
RunJob == jobs[run.id]

\* The processing of contract c raised in the latest run.
Failed(c) ==
    \/ run.inputs[c].reply = "raised"
    \/ run.inputs[c].fetch = "raised"
    \/ run.inputs[c].commit = "raised"

History(rows, c) == rows[c].extra_data.implementation_history

\* The identifier of the implementation linked to row c, NoUrl for none.
LinkedUrl(rows, c) ==
    IF rows[c].implementation = 0 THEN NoUrl
    ELSE rows[rows[c].implementation].identifier

\* C3: every committed change of a contract's implementation has exactly one
\* CONTRACT_UPGRADED event, and every event reports one such change: the
\* events of a proxy are as many as its committed relinks, each names two
\* different implementations, each starts where the one before ended, and the
\* last names the implementation now linked.
C3_OneEventPerChange ==
    \A c \in 1 .. Len(db) :
        LET es == EmittedFor(c)
        IN  /\ Len(es) = implChanges[c]
            /\ \A k \in 1 .. Len(es) :
                  /\ es[k].old_implementation # es[k].new_implementation
                  /\ k > 1 => es[k].old_implementation = es[k - 1].new_implementation
                  /\ k = Len(es) => es[k].new_implementation = db[c].implementation

\* Two events have been emitted, and in the latest run the processing of a
\* contract raised.
C3_Witness ==
    /\ Len(emitted) = 2
    /\ run.id # 0
    /\ \E c \in 1 .. Len(run.inputs) : Failed(c)

\* No event has been mined since the run before the latest one started.
Quiet == run.id >= 2 /\ lastEventRun < run.id - 1

\* C4 as claimed: in a second run without new on-chain events, no contract
\* gets a history entry and no event is emitted, here even when no contract's
\* processing raised in either run.
C4_SecondRunAddsNothing ==
    (/\ Quiet
     /\ jobs[run.id - 1].status = "COMPLETED"
     /\ run.prevFaultFree
     /\ \A c \in 1 .. Len(run.inputs) : ~ Failed(c))
    => /\ \A c \in 1 .. Len(run.db0) : History(db, c) = History(run.db0, c)
       /\ \A k \in 1 .. Len(emitted) : emitted[k].run # run.id

\* C4 as amended: in a second run without new on-chain events, a contract
\* that the first run processed without an exception gets no history entry
\* and no event.
C4_SecondRunAddsNothingForProcessed ==
    Quiet =>
        \A c \in run.prevClean :
            /\ History(db, c) = History(run.db0, c)
            /\ \A k \in 1 .. Len(emitted) :
                  ~ (emitted[k].run = run.id /\ emitted[k].proxy = c)

\* A second run without new events has re-checked a contract that the first
\* run relinked.
C4_Witness ==
    /\ Quiet
    /\ RunJob.pc = "returned"
    /\ \E c \in run.prevClean :
          /\ Len(History(run.db0, c)) = 1
          /\ run.inputs[c].reply = "events"
          /\ run.inputs[c].latest # NoEvent

\* The canonical URL of the implementation an event names, for contract c.
EventUrl(rows, c, ev) ==
    ImplUrl(IsSupportedExplorer(rows[c].identifier)[2], ev.implementation)

\* What C5 promises for contract c and the event ev.
Relinked(c, ev) ==
    /\ db[c].implementation # 0
    /\ LinkedUrl(db, c) = EventUrl(run.db0, c, ev)
    /\ History(db, c) = Append(History(run.db0, c),
          [address |-> ev.implementation, url |-> EventUrl(run.db0, c, ev),
           block_number |-> ev.blockNumber, timestamp |-> ev.timestamp])

\* C5 as claimed: after a run during which no event was mined and nothing
\* raised, every deployed contract (on a supported explorer, so that the
\* canonical URL exists) whose latest event named another implementation
\* than the linked one is relinked to it, with one new history entry.
C5_ChangedContractIsRelinked ==
    (/\ run.id # 0
     /\ RunJob.pc = "returned"
     /\ run.queried
     /\ \A c \in 1 .. Len(run.inputs) : ~ Failed(c)
     /\ lastEventRun < run.id)
    => \A c \in 1 .. Len(run.db0) :
          LET evs == EventsAt(chain, run.db0[c].identifier)
          IN  (/\ run.db0[c].asset_type = "DEPLOYED_CONTRACT"
               /\ IsSupportedExplorer(run.db0[c].identifier)[1]
               /\ evs # <<>>
               /\ LinkedUrl(run.db0, c) # EventUrl(run.db0, c, evs[Len(evs)]))
              => Relinked(c, evs[Len(evs)])

\* C5 as amended: the same for a contract that the run queried (so not
\* flagged is_not_proxy), for the latest event the explorer returned for it,
\* when its processing raised no exception.
C5_QueriedChangedContractIsRelinked ==
    (run.id # 0 /\ RunJob.pc = "returned")
    => \A c \in 1 .. Len(run.db0) :
          LET ev == run.inputs[c].latest
          IN  (/\ run.inputs[c].reply = "events"
               /\ ev # NoEvent
               /\ ~ Failed(c)
               /\ IsSupportedExplorer(run.db0[c].identifier)[1]
               /\ LinkedUrl(run.db0, c) # EventUrl(run.db0, c, ev))
              => Relinked(c, ev)

\* A run has relinked a contract that already had an implementation.
C5_Witness ==
    /\ run.id # 0
    /\ RunJob.pc = "returned"
    /\ \E c \in 1 .. Len(run.db0) :
          /\ run.inputs[c].latest # NoEvent
          /\ ~ Failed(c)
          /\ run.db0[c].implementation # 0
          /\ LinkedUrl(run.db0, c) # LinkedUrl(db, c)

\* C6: a contract for which the explorer returned no events, and whose
\* processing did not raise, is flagged is_not_proxy for the rest of the run;
\* and a run that starts with a contract flagged does not query it, does not
\* ask the explorer about it and leaves the flag set.
C6_NotProxyFlagIsSticky ==
    run.id # 0 =>
        \A c \in 1 .. Len(run.db0) :
            /\ (/\ run.inputs[c].reply = "events"
                /\ run.inputs[c].latest = NoEvent
                /\ ~ Failed(c))
               => db[c].extra_data.is_not_proxy
            /\ run.db0[c].extra_data.is_not_proxy
               => /\ db[c].extra_data.is_not_proxy
                  /\ run.inputs[c] = NoInputs
                  /\ \A k \in 1 .. Len(RunJob.contracts) : RunJob.contracts[k] # c

\* The second run is over; the first contract was flagged before it and has
\* upgrade events by now.
C6_Witness ==
    /\ run.id = 2
    /\ RunJob.pc = "returned"
    /\ run.queried
    /\ run.db0[1].extra_data.is_not_proxy
    /\ chain[db[1].identifier] # <<>>

\* C7: a contract whose processing raised in the latest run has the row it
\* had before the run and no uncommitted write; and once the run is over,
\* the explorer has been asked about every contract of its query.
C7_ContractFailureIsIsolated ==
    run.id # 0 =>
        /\ \A c \in 1 .. Len(run.db0) :
              Failed(c) =>
                  /\ db[c] = run.db0[c]
                  /\ \A k \in 1 .. Len(RunJob.session) : RunJob.session[k].row # c
        /\ (RunJob.pc = "returned" /\ run.queried) =>
              \A c \in 1 .. Len(run.db0) :
                  (/\ run.db0[c].asset_type = "DEPLOYED_CONTRACT"
                   /\ ~ run.db0[c].extra_data.is_not_proxy)
                  => run.inputs[c].reply # "none"

\* A run is over in which the commit of the first contract's relink raised
\* and the second contract was processed after it.
C7_Witness ==
    /\ run.id # 0
    /\ RunJob.pc = "returned"
    /\ run.inputs[1].latest # NoEvent
    /\ run.inputs[1].commit = "raised"
    /\ run.inputs[2].reply = "events"

\* C8: every row has as many implementation_history entries as its
\* committed implementation relation has changed.
C8_HistoryCountsRelinks ==
    \A c \in 1 .. Len(db) : Len(History(db, c)) = implChanges[c]

\* A contract has been relinked twice, and a commit has raised in the
\* latest run.
C8_Witness ==
    /\ \E c \in 1 .. Len(db) : implChanges[c] = 2
    /\ run.id # 0
    /\ \E c \in 1 .. Len(run.inputs) : run.inputs[c].commit = "raised"

(***************************************************************************)
(* Properties of the jobs' lifecycle                                       *)
(***************************************************************************)
\* C2: a job whose start() has returned, normally or through one of its
\* except clauses, is COMPLETED, FAILED or STOPPED, never PENDING or
\* RUNNING.
C2_StatusTerminalAfterStart ==
    /\ \A j \in 1 .. Len(jobs) :
          jobs[j].pc = "returned" => jobs[j].status \in TerminalStatuses
    /\ embed.pc = "returned" => embed.status \in TerminalStatuses
    /\ autobot.pc = "returned" => autobot.status \in TerminalStatuses

\* An EmbedJob has returned through its outer except clause after it had
\* processed assets.
C2_Witness ==
    /\ embed.pc = "returned"
    /\ embed.status = "FAILED"
    /\ embed.processed > 0

\* Every job of the behaviour, whatever its kind.
AllJobs ==
    {jobs[j] : j \in 1 .. Len(jobs)}
        \cup {jr \in {embed, autobot} : jr.pc # "absent"}

\* The changes of status C12 names.
NamedMoves ==
    {<<"PENDING", "RUNNING">>, <<"RUNNING", "COMPLETED">>,
     <<"RUNNING", "FAILED">>, <<"RUNNING", "STOPPED">>}

JobOf(reg, objs, a) == GetJobIn(reg, objs, executes[a].job_id)

\* The calls of execute that have submitted their job.
Submitted == {a \in 1 .. MaxSubmits : executes[a].pc = "returned"}

\* C14: the jobs submitted together have distinct identifiers, list_jobs
\* returns exactly these, get_job returns for each identifier the job that
\* was submitted under it, and a step that changes one job (its failure,
\* its stop, any transition) leaves the status, the result and the registry
\* entry of every other job as they were.
C14_JobsAreIndependent ==
    /\ [](/\ \A a, b \in Submitted : a # b => executes[a].job_id # executes[b].job_id
          /\ {ListJobs[k].id : k \in 1 .. Len(ListJobs)} = {executes[a].job_id : a \in Submitted}
          /\ Len(ListJobs) = Cardinality(Submitted)
          /\ \A a \in Submitted : GetJob(executes[a].job_id) = objects[executes[a].job])
    /\ [][\A a \in Submitted :
            JobOf(registry', objects', a) # JobOf(registry, objects, a)
                => \A b \in Submitted \ {a} :
                      JobOf(registry', objects', b) = JobOf(registry, objects, b)]_vars
    /\ [][\A k \in 1 .. Len(registry) : k <= Len(registry') /\ registry'[k] = registry[k]]_vars

\* Three jobs were submitted; one has failed, one was stopped, and the
\* third has completed.
C14_Witness ==
    /\ Cardinality(Submitted) >= 3
    /\ \E a, b, c \in Submitted :
          /\ GetJob(executes[a].job_id).status = "FAILED"
          /\ GetJob(executes[b].job_id).status = "STOPPED"
          /\ GetJob(executes[c].job_id).status = "COMPLETED"

(***************************************************************************)
(* Properties of stop_job and of the harness                               *)
(***************************************************************************)
\* A step that is a call of stop_job.
StopStep == stop_calls'.n = stop_calls.n + 1

\* C15: stop_job on a job in a terminal status does not raise and leaves
\* the job, its status and result with it, exactly as it was, however often
\* it is repeated.
C15_StopTerminalIsNoOp ==
    [][StopStep /\ stop_calls'.before \in TerminalStatuses
          => /\ jobs' = jobs /\ embed' = embed /\ autobot' = autobot
             /\ ~ stop_calls'.raised]_vars

\* stop_job was called more than once on a job that had completed, and the
\* job is as complete() left it.
C15_Witness ==
    /\ stop_calls.n >= 2
    /\ stop_calls.before = "COMPLETED"
    /\ \E jr \in AllJobs :
          /\ jr.status = "COMPLETED"
          /\ jr.stops = 0
          /\ jr.results_set = 1

C18_HarnessFailsEscapes ==
    \A jr \in AllJobs :
        /\ jr.escaped # "none" => jr.status = "FAILED" /\ jr.error = jr.escaped
                                   /\ jr.pc = "returned"
        /\ jr.pc \in {"returned", "cancelled"} => jr.status \in TerminalStatuses

\* The except clause of an AutobotJob has raised, and the harness has made
\* the job FAILED.
C18_Witness ==
    /\ autobot.pc = "returned"
    /\ autobot.escaped = "AttributeError"
    /\ autobot.status = "FAILED"
    /\ autobot.error = "AttributeError"

(***************************************************************************)
(* Properties of ProxyMonitorJob with the bus                              *)
(***************************************************************************)
\* A handler of the trigger_event call in flight has failed: its
\* constructor, its set_context or its handle() raised.
HandlerFailed == \E i \in 1 .. Len(call.plan) : call.plan[i] # "ok"

\* C19: when a handler for CONTRACT_UPGRADED raises, the exception does not
\* reach the job: trigger_event returns, the job goes on with the next
\* contract, still RUNNING, with the rows as committed; every relink the job
\* emitted stays in the table with its history entry; and the job ends
\* COMPLETED.
C19_HandlerFailureStaysInBus ==
    /\ [][\A j \in 1 .. Len(jobs) :
            jobs[j].pc = "emit" /\ jobs'[j].pc # "emit" /\ HandlerFailed
                => /\ ~ call.raised
                   /\ jobs'[j] = LoadAtHead(NextContract(jobs[j]), db)
                   /\ jobs'[j].status = "RUNNING"
                   /\ db' = db]_vars
    /\ [](\A k \in 1 .. Len(emitted) :
            LET e == emitted[k]
                history == db[e.proxy].extra_data.implementation_history
            IN  /\ db[e.proxy].implementation = e.new_implementation
                /\ history # <<>>
                /\ history[Len(history)].address = e.event.implementation
                /\ history[Len(history)].block_number = e.event.blockNumber)
    /\ [](\A j \in 1 .. Len(jobs) :
            jobs[j].pc = "returned" /\ run.queried => jobs[j].status = "COMPLETED")

\* The job has relinked a contract, a handler of the event raised in
\* handle(), and the job has gone through the remaining contracts and
\* completed.
C19_Witness ==
    /\ \E j \in 1 .. Len(jobs) : jobs[j].pc = "returned" /\ jobs[j].status = "COMPLETED"
    /\ emitted # <<>>
    /\ call.trigger = "CONTRACT_UPGRADED"
    /\ \E k \in 1 .. Len(handler_tasks) :
          handler_tasks[k].fate = "handle_raises" /\ handler_tasks[k].st = "done"
    /\ db[emitted[1].proxy].implementation = emitted[1].new_implementation

\* The contracts the latest run took up.
Processed == {c \in 1 .. Len(run.inputs) : run.inputs[c].reply # "none"}

\* C20: a run that has returned is FAILED exactly when its initial query
\* failed, an error outside the loop over the contracts, and COMPLETED
\* whenever the query succeeded, however many of its contracts failed.
C20_FailsOnlyOutsideLoop ==
    /\ run.id # 0 /\ RunJob.pc = "returned" =>
          /\ RunJob.status = "FAILED" <=> ~ run.queried
          /\ RunJob.status = "COMPLETED" <=> run.queried
    /\ \A j \in 1 .. Len(jobs) :
          /\ jobs[j].status = "FAILED" => jobs[j].error = "query failed"
          /\ jobs[j].pc \in {"explorer", "fetch", "emit", "complete"}
                => jobs[j].status = "RUNNING"

\* A run has completed although every contract it took up failed, two of
\* them at least.
C20_Witness ==
    /\ run.id # 0
    /\ run.queried
    /\ RunJob.pc = "returned"
    /\ RunJob.status = "COMPLETED"
    /\ Cardinality(Processed) >= 2
    /\ \A c \in Processed : Failed(c)

(***************************************************************************)
(* Further properties of ProxyMonitorJob                                   *)
(***************************************************************************)
\* C21: a CONTRACT_UPGRADED event is emitted only with the relink and the
\* history entry committed: the step that emits it leaves the proxy's row
\* linked to new_implementation with the event's entry last in its history;
\* old_implementation is what the row was linked to before, `event` the
\* latest upgrade event the explorer returned; and a contract whose commit
\* failed in a run has no event from that run.
C21_EmitAfterCommit ==
    /\ [][emitted' # emitted =>
            \E e \in {emitted'[Len(emitted')]} :
                /\ emitted' = Append(emitted, e)
                /\ e.run = run'.id
                /\ db'[e.proxy].implementation = e.new_implementation
                /\ db[e.proxy].implementation = e.old_implementation
                /\ e.event = run'.inputs[e.proxy].latest
                /\ e.event # NoEvent
                /\ History(db', e.proxy) =
                      Append(History(db, e.proxy),
                             HistoryEntry(e.event.implementation,
                                          LinkedUrl(db', e.proxy), e.event))
                /\ run'.inputs[e.proxy].commit = "ok"
                /\ jobs'[e.run].session = CleanSession]_vars
    /\ [](\A k \in 1 .. Len(emitted) :
            emitted[k].run = run.id => run.inputs[emitted[k].proxy].commit = "ok")
    /\ [](\A c \in 1 .. Len(run.inputs) :
            run.inputs[c].commit = "raised" =>
                /\ db[c] = run.db0[c]
                /\ \A k \in 1 .. Len(emitted) :
                      ~ (emitted[k].run = run.id /\ emitted[k].proxy = c))

\* A run has emitted the event for a proxy that was linked to another
\* implementation before, and the commit for another contract has failed in
\* the same run.
C21_Witness ==
    /\ run.id # 0
    /\ \E k \in 1 .. Len(emitted) :
          /\ emitted[k].run = run.id
          /\ emitted[k].old_implementation # 0
    /\ \E c \in 1 .. Len(run.inputs) : run.inputs[c].commit = "raised"

(***************************************************************************)
(* Properties of submit_job                                                *)
(***************************************************************************)
\* C22: when execute returns with the identifier submit_job gave it, the job
\* is in the registry under that identifier and has not finished: it is
\* PENDING or RUNNING; and the start() that was scheduled eventually runs.
C22_SubmitReturnsAtOnce ==
    /\ [][\A a \in 1 .. MaxSubmits :
            executes[a].pc = "init" /\ executes'[a].pc = "returned"
                => LET job == GetJobIn(registry', objects', executes'[a].job_id)
                   IN  /\ job # NotFound
                       /\ job = objects'[executes'[a].job]
                       /\ job.status \in {"PENDING", "RUNNING"}
                       /\ job.results_set = 0]_vars
    /\ \A a \in 1 .. MaxSubmits :
          (executes[a].pc = "returned")
              ~> (executes[a].pc = "returned" /\ objects[executes[a].job].pc # "init")

\* Every call has returned with its identifier while none of the jobs has
\* started.
C22_Witness ==
    /\ \A a \in 1 .. MaxSubmits : executes[a].pc = "returned"
    /\ \A o \in 1 .. Len(objects) : objects[o].status = "PENDING"
    /\ Len(registry) = MaxSubmits

(***************************************************************************)
(* Further properties of the jobs                                          *)
(***************************************************************************)
\* C23: every terminal state carries a text: a COMPLETED job has a result
\* with a message that is not empty, a FAILED job an error that is not
\* empty.
C23_TerminalStateCarriesText ==
    \A jr \in AllJobs :
        /\ jr.status = "COMPLETED" => jr.result.message # ""
        /\ jr.status = "FAILED" => jr.error # ""

(***************************************************************************)
(* Further properties of the event bus                                     *)
(***************************************************************************)
\* The handler classes registered for the trigger when the call in flight
\* was made.
Dispatched == Listed(call.registry_before, call.trigger)

\* The tasks of the call in flight made for entry i of the list.
TasksOf(i) == {k \in 1 .. Len(handler_tasks) : handler_tasks[k].entry = i}

\* Every task belongs to an entry of the trigger's list, is of that entry's
\* class, had set_context called before handle(), and has had handle()
\* invoked once at most.
TasksAreOfTheTrigger ==
    \A k \in 1 .. Len(handler_tasks) :
        /\ handler_tasks[k].entry \in 1 .. Len(Dispatched)
        /\ handler_tasks[k].cls = Dispatched[handler_tasks[k].entry]
        /\ call.trigger \in GetTriggers(handler_tasks[k].cls)
        /\ handler_tasks[k].context_set
        /\ handler_tasks[k].handled <= 1
        /\ handler_tasks[k].st # "pending" => handler_tasks[k].handled = 1

\* C24 as stated: when trigger_event has returned, every entry of the
\* trigger's list has had one instance made, given its context and had
\* handle() invoked exactly once, and nothing else was instantiated.
C24_EveryEntryHandledOnce ==
    /\ TasksAreOfTheTrigger
    /\ call.pc = "returned" =>
          \A i \in 1 .. Len(Dispatched) :
              /\ Cardinality(TasksOf(i)) = 1
              /\ \A k \in TasksOf(i) : handler_tasks[k].handled = 1

\* C24: when trigger_event has returned, every entry of the trigger's list
\* whose constructor and set_context did not raise has had one instance
\* made, given its context before handle(), and had handle() invoked exactly
\* once; an entry whose constructor or set_context raised has had no
\* handle() invoked and is logged; and no class registered only for other
\* triggers was instantiated or invoked.
C24_EveryInstantiatedEntryHandledOnce ==
    /\ TasksAreOfTheTrigger
    /\ call.pc = "returned" =>
          /\ Len(call.plan) = Len(Dispatched)
          /\ \A i \in 1 .. Len(Dispatched) :
                IF call.plan[i] \in {"init_raises", "ctx_raises"}
                THEN /\ TasksOf(i) = {}
                     /\ \E n \in 1 .. Len(busLog) :
                           busLog[n] = <<"error", "handler_failed", i>>
                ELSE /\ Cardinality(TasksOf(i)) = 1
                     /\ \A k \in TasksOf(i) : handler_tasks[k].handled = 1

\* A call has returned whose trigger had an entry, with handle() invoked
\* for it, while a class that does not declare the trigger was registered
\* for another.
C24_Witness ==
    /\ call.pc = "returned"
    /\ Dispatched # <<>>
    /\ \E k \in TasksOf(1) : handler_tasks[k].handled = 1
    /\ \E t \in DOMAIN call.registry_before :
          \E n \in 1 .. Len(call.registry_before[t]) :
              call.trigger \notin GetTriggers(call.registry_before[t][n])

(***************************************************************************)
(* C25: when a run finds a changed implementation it links the asset that  *)
(* has the implementation's identifier, without a fetch, if there is one;  *)
(* otherwise it fetches the sources and creates the asset.  No two assets  *)
(* have the same identifier, and a fetch that fails creates no asset and   *)
(* relinks no proxy.                                                       *)
(***************************************************************************)
OneAssetPerIdentifier ==
    \A i, k \in 1 .. Len(db) : db[i].identifier = db[k].identifier => i = k

\* The contract a run is working on.
ContractOf(jr) == jr.contracts[jr.idx]

\* The step that follows the explorer's reply: a relink made there is to a
\* stored asset with the implementation's identifier, no source was
\* fetched and no asset was created; the fetch is awaited only when no
\* asset has the identifier.
LinksExisting(j) ==
    LET jr == jobs[j]
        c  == ContractOf(jr)
    IN  /\ db' # db /\ db'[c].implementation # db[c].implementation
            => /\ Len(db') = Len(db)
               /\ run'.inputs[c].fetch = "none"
               /\ db'[c].implementation = FindAsset(db, ImplUrl("etherscan",
                                              run'.inputs[c].latest.implementation))
               /\ db'[c].implementation # 0
        /\ jobs'[j].pc = "fetch" => FindAsset(db, jobs'[j].impl_url) = 0

\* The step that follows the fetch: when the fetch raised nothing is
\* written; a write creates the asset and links the contract to it.
CreatesFetched(j) ==
    LET jr == jobs[j]
        c  == ContractOf(jr)
    IN  /\ run'.inputs[c].fetch = "raised" => db' = db
        /\ db' # db
            => /\ run'.inputs[c].fetch = "ok"
               /\ Len(db') = Len(db) + 1
               /\ db'[Len(db')] = ImplAsset(jr.impl_url, db[c].project_id)
               /\ db'[c].implementation = Len(db')
               /\ \A i \in 1 .. Len(db) : i # c => db'[i] = db[i]

LinkOrCreate ==
    \A j \in 1 .. Len(jobs) :
        /\ jobs[j].pc = "explorer" /\ jobs'[j] # jobs[j] => LinksExisting(j)
        /\ jobs[j].pc = "fetch" /\ jobs'[j] # jobs[j] => CreatesFetched(j)

C25_LinkOrCreateAsset == [] OneAssetPerIdentifier /\ [][LinkOrCreate]_vars

\* A run has fetched the sources of one implementation and created its
\* asset, and a later run has linked the contract to the asset that was
\* stored for another, with no fetch.
C25_Witness ==
    /\ Len(db) = Len(IndexedAssets) + 1
    /\ db[Len(db)].identifier = Url("etherscan.io", "b")
    /\ db[1].implementation = Len(IndexedAssets)
    /\ run.inputs[1].fetch = "none"
    /\ run.inputs[1].commit = "ok"

(***************************************************************************)
(* C26: in EmbedJob a failure while one asset is processed is caught and   *)
(* counted, and the loop goes on with the next asset: the job does not end *)
(* FAILED for it.  The result of a COMPLETED job has success = TRUE        *)
(* exactly when no failure was counted.                                    *)
(***************************************************************************)
\* A step of the loop in which a failure was counted.
CountsFailure == embed.pc \in {"loop", "commit"} /\ embed'.failed = embed.failed + 1

\* After the step the loop is at the next asset, or past the last one with
\* the job ended by complete().
GoesOn ==
    \/ embed'.pc \in {"loop", "commit"} /\ embed'.i = embed.i + 1
    \/ /\ embed'.i = embed.total
       /\ embed'.pc = "returned"
       /\ embed'.status = "FAILED" => embed'.error = "complete failed"

SuccessIffNoFailure ==
    embed.status = "COMPLETED" => (embed.result.success <=> embed.failed = 0)

C26_PerAssetFailureGoesOn ==
    [] SuccessIffNoFailure /\ [][CountsFailure => GoesOn]_vars

(***************************************************************************)
(* C28: two ProxyMonitorJob runs in flight together over a contract with   *)
(* one new upgrade event leave the contract with one new history entry,    *)
(* at most one asset with the new implementation's identifier, and one     *)
(* CONTRACT_UPGRADED event for the change.                                 *)
(***************************************************************************)
\* The one upgrade event mined is of the contract in row 1.
OneUpgrade ==
    /\ height = 1
    /\ Len(chain[db[1].identifier]) = 1

\* The rows whose identifier is that of the implementation the event names.
AssetsOfUpgrade ==
    {i \in 1 .. Len(db) :
        db[i].identifier = ImplUrl("etherscan", chain[db[1].identifier][1].implementation)}

\* The events emitted for the contract in row 1.
EventsOfUpgrade == {k \in 1 .. Len(emitted) : emitted[k].proxy = 1}

C28_ConcurrentRunsEmitOnce ==
    /\ OneUpgrade
    /\ \A j \in 1 .. Len(jobs) : jobs[j].pc = "returned"
    => /\ Len(db[1].extra_data.implementation_history) <= 1
       /\ Cardinality(AssetsOfUpgrade) <= 1
       /\ Cardinality(EventsOfUpgrade) <= 1
       /\ db[1].implementation # 0
            => /\ Len(db[1].extra_data.implementation_history) = 1
               /\ Cardinality(AssetsOfUpgrade) = 1
               /\ Cardinality(EventsOfUpgrade) = 1

(***************************************************************************)
(* C29: when an iteration of ProxyMonitorJob's loop starts, the session    *)
(* holds no change that is not committed, so the rollback after a failure  *)
(* on one contract undoes nothing that was done for a contract processed   *)
(* before it in the run: its flag, or its relink and history entry, stay.  *)
(***************************************************************************)
SessionCleanAtHead ==
    \A j \in 1 .. Len(jobs) : jobs[j].pc = "explorer" => jobs[j].session = CleanSession

\* What the run committed for contract c is in the table.
Kept(c) ==
    LET history == db[c].extra_data.implementation_history
    IN  IF run.inputs[c].latest = NoEvent
        THEN db[c].extra_data.is_not_proxy
        ELSE /\ db[c].implementation # 0
             /\ db[db[c].implementation].identifier =
                    ImplUrl("etherscan", run.inputs[c].latest.implementation)
             /\ history # <<>>
             /\ history[Len(history)].address = run.inputs[c].latest.implementation

\* The contracts of the run whose iteration a failure ended.
FailedContracts(inputs) ==
    {c \in 1 .. Len(inputs) :
        "raised" \in {inputs[c].reply, inputs[c].fetch, inputs[c].commit}}

\* A step in which an iteration fails leaves the table as it was.
FailureWritesNothing ==
    run'.id = run.id /\ FailedContracts(run'.inputs) # FailedContracts(run.inputs)
        => db' = db

C29_RollbackSparesEarlierContracts ==
    /\ [] SessionCleanAtHead
    /\ [] (\A c \in 1 .. Len(run.inputs) : run.inputs[c].commit = "ok" => Kept(c))
    /\ [][FailureWritesNothing]_vars

\* A run has relinked the first contract, and the commit for the second has
\* failed and was rolled back.
C29_Witness ==
    /\ Len(run.inputs) >= 2
    /\ run.inputs[1].commit = "ok"
    /\ run.inputs[1].latest # NoEvent
    /\ run.inputs[2].commit = "raised"
    /\ Kept(1)

(***************************************************************************)
(* C30: when EmbedJob is COMPLETED, the update of every asset counted in   *)
(* `processed` has been committed; none was left in a batch that was not   *)
(* committed, or dropped by a rollback.                                    *)
(***************************************************************************)
C30_ProcessedAreCommitted ==
    embed.status = "COMPLETED"
        => /\ embed.committed = embed.processed
           /\ embed.pending = 0

(***************************************************************************)
(* C31: EmbedJob counts each asset at most once: processed + failed never  *)
(* exceeds the number of assets the loop has reached, and when the job is  *)
(* COMPLETED processed + failed + skipped is the number of assets.         *)
(***************************************************************************)
\* The assets the loop has reached: those it is done with and, while it is
\* inside the loop, the one it is at.
Iterated == IF embed.i < embed.total THEN embed.i + 1 ELSE embed.total

C31_EachAssetCountedOnce ==
    embed.job_type = "embed"
        => /\ embed.processed + embed.failed <= Iterated
           /\ embed.status = "COMPLETED"
                => embed.processed + embed.failed + embed.skipped = embed.total

(***************************************************************************)
(* Properties of WatcherManager                                            *)
(***************************************************************************)
\* The configuration has a watchers section with the key `enabled` set to
\* true and at least one active watcher.
ConfigEnables(c) ==
    /\ c.present
    /\ "enabled" \in c.keys /\ c.enabled
    /\ "active_watchers" \in c.keys /\ c.active_watchers # <<>>

\* start() has not got to the webhook server or to any watcher.
NothingStarted ==
    /\ wm.webhook_server = "none"
    /\ wm.pc \notin {"get_instance", "server_start", "initialize"}
    /\ wm.results = <<>>

\* C32: start() starts the webhook server and watchers only under a
\* configuration whose watchers section is there, has `enabled` set to true
\* and lists an active watcher; under any other it starts nothing, and
\* list_watchers() stays empty.
C32_StartsOnlyWhenEnabled ==
    ~ ConfigEnables(wm.config) => NothingStarted /\ ListWatchers(wm.watchers) = <<>>

\* start() has returned under a section that lists a watcher and has
\* `enabled` set to false.
C32_Witness ==
    /\ wm.start = "returned"
    /\ "enabled" \in wm.config.keys /\ ~ wm.config.enabled
    /\ wm.config.active_watchers # <<>>
    /\ NothingStarted

\* The configured watchers that start() has started without error so far.
StartedOk ==
    {ActiveWatchers(wm.config)[k] : k \in {n \in 1 .. Len(wm.results) : wm.results[n] = "ok"}}

\* C33: a configured watcher whose constructor or initialize() raises is
\* not entered in the table, and the watchers configured after it are
\* started all the same: when start() has returned, every configured name
\* was tried, and list_watchers() holds exactly the names that were
\* discovered and initialized without error.
C33_FailedWatcherIsSkipped ==
    wm.stops = 0
        => /\ {ListWatchers(wm.watchers)[n] : n \in 1 .. Len(wm.watchers)} = StartedOk
           /\ StartedOk \subseteq Discovered
           /\ wm.start = "returned" /\ ConfigEnables(wm.config)
                => /\ Len(wm.results) = Len(ActiveWatchers(wm.config))
                   /\ \A k \in 1 .. Len(wm.results) :
                         wm.results[k] = "not_found"
                            <=> ActiveWatchers(wm.config)[k] \notin Discovered

\* start() has returned; the first configured watcher raised in
\* initialize() and the second was started.
C33_Witness ==
    /\ wm.start = "returned"
    /\ wm.stops = 0
    /\ Len(wm.results) = 2
    /\ wm.results[1] = "initialize_raises"
    /\ wm.results[2] = "ok"
    /\ ListWatchers(wm.watchers) = <<ActiveWatchers(wm.config)[2]>>

\* The call of stop() that ended last was not ended by the webhook server:
\* it returned, or the stop() of a watcher raised.
ServerStopDidNotRaise == wm.last_stop = "raised" => GatherRaised(wm.stop_tasks)

\* C34: when stop() has been called and has ended, the webhook server, if
\* it was started, is stopped, and the table of watchers is empty, also
\* when the stop() of a watcher raised.
C34_StopStopsEverything ==
    wm.pc = "idle" /\ wm.last_stop # "none" /\ ServerStopDidNotRaise
        => /\ wm.webhook_server # "started"
           /\ ListWatchers(wm.watchers) = <<>>

(***************************************************************************)
(* C35: a configuration that was rejected is never served: when a call of  *)
(* Config() has raised because the root is no dictionary or the schema     *)
(* rejects the content, no later call returns with that content, and no    *)
(* caller reads values from it.                                            *)
(***************************************************************************)
C35_RejectedConfigNeverServed ==
    /\ cfg.last = "returned" => cfg.config \notin cfg.rejected
    /\ cfg.reads \notin cfg.rejected

(***************************************************************************)
(* C36: a QueryBuilder method that raises ValueError leaves the selected   *)
(* fields, the joins, the conditions, the order_by, the limit and the      *)
(* offset of the builder as they were; select() called with one invalid    *)
(* field adds none of the fields it was given.                             *)
(***************************************************************************)
RaisedCall == qb'.calls = qb.calls + 1 /\ qb'.last = "raised"

Accumulated(q) ==
    [selected_fields |-> q.selected_fields, joins |-> q.joins,
     conditions |-> q.conditions, order_by |-> q.order_by,
     limit |-> q.limit, offset |-> q.offset]

C36_RaisingCallChangesNothing ==
    [][RaisedCall => Accumulated(qb') = Accumulated(qb)]_vars

=============================================================================
